---- MODULE Spec2Model ----
(***************************************************************************)
(* State-machine model of the MIDI mapping / learn engine and of the video *)
(* playlist of video-synth-sequencer.                                      *)
(*                                                                         *)
(* Numbers.  The mapping table holds decimal ranges with at most two       *)
(* fractional digits; the table below stores them in hundredths            *)
(* (0.25 -> 25, 3.14 -> 314).  A scaled value min + (v/127)*(max-min) is   *)
(* kept exactly, as the integer numerator of a fraction over 100*127:      *)
(*     min*127 + v*(max-min).                                              *)
(* A table default d is, in the same unit, d*127.                          *)
(*                                                                         *)
(* Indices.  JavaScript arrays are 0-based and currentIndex is kept        *)
(* 0-based; the entry at JavaScript index i is videos[i+1].                *)
(***************************************************************************)
EXTENDS Integers, Sequences, FiniteSets, TLC

VARIABLES
    \* ---- MIDIMapper
    mappings,               \* this.mappings: cc -> descriptor
    activeValues,           \* this.activeValues: cc -> scaled value
    lastUpdateTime,         \* this.lastUpdateTime: cc -> performance.now()
    onValueChangeCallback,  \* "null" or "app" (the listener main.js registers)
    notified,               \* notifications delivered by the last mapper call
    \* ---- MIDILearn
    isLearning,             \* this.isLearning
    learningTarget,         \* this.learningTarget: {} (null) or {[cc, name]}
    learnTimeout,           \* this.learnTimeout: {} (null) or {timer id}
    tempCCHandler,          \* this.tempCCHandler: "null" or "set"
    customMappings,         \* this.customMappings: cc -> [originalCC, mapping]
    learnEvents,            \* callbacks invoked by the last MIDILearn operation
    \* ---- MIDIController
    onCCCallback,           \* this.onCCCallback: "null", "app" or "learn"
    midiAccess,             \* this.midiAccess: "null" or "access"
    inputs,                 \* this.inputs: the managed port ids, in Map order
    activeDevice,           \* this.activeDevice: {} (null) or {port id}
    isEnabled,              \* this.isEnabled
    onmidimessage,          \* ports whose onmidimessage is the controller's handler
    onstatechange,          \* the MIDIAccess object's onstatechange is the handler
    ports,                  \* midiAccess.inputs: the connected input ports, in order
    initPending,            \* initialize() calls waiting for requestMIDIAccess
    disposed,               \* disconnect() ran and no initialize() code ran since
    exported,               \* {} or {the document exportMappings() returned last}
    exportedValues,         \* the active values as that exportMappings() call found them
    wasActive,              \* this.activeDevice as the last port notification found it
    ccEvents,               \* events handed to the CC listener by the step just taken
    \* ---- VideoManager
    videos,                 \* this.videos: the entries, by id
    currentIndex,           \* this.currentIndex (0-based)
    isPlaying,              \* this.isPlaying
    elementPaused,          \* entry id -> element.paused
    playPending,            \* entries whose element.play() promise is pending
    loading,                \* addVideo calls waiting for 'loadedmetadata'
    addCalls,               \* addVideo calls made so far
    playbackRate,           \* this.playbackRate, in hundredths
    videoErrors,            \* errors the last step handed to onErrorCallback
    \* ---- BeatDetector
    beatDetector,           \* AudioEngine.beatDetector: "null" or "live"
    sensitivity,            \* this.sensitivity, in tenths
    threshold,              \* this.threshold, in tenths
    minTimeBetweenBeats,    \* this.minTimeBetweenBeats, in ms
    lastBeatTime,           \* this.lastBeatTime
    isKick,                 \* this.isKick
    isSnare,                \* this.isSnare
    isHiHat,                \* this.isHiHat
    energyHistory,          \* this.energyHistory, each energy in tenths
    frameLog,               \* what analyze() took and reported, call by call
    \* ---- FrequencyAnalyzer
    frequencyAnalyzer,      \* AudioEngine.frequencyAnalyzer: "live" or "null"
    bands,                  \* this.bands: name -> [level, peak], in 1/255
    peakHoldTimers,         \* this.peakHoldTimers: name -> {} or {timer id}
    holdTimers,             \* armed peak-hold timers: [id, due, band]
    holdSeq,                \* peak-hold timer ids handed out so far
    lastRaise,              \* name -> {} or {time of the last sample above the peak}
    \* ---- AudioEngine
    audioContext,           \* this.audioContext: "null" or "open"
    microphone,             \* this.microphone: "null" or "stream"
    analyzer,               \* this.analyzer: "null" or "node"
    source,                 \* this.source: "null" or "node"
    gainNode,               \* this.gainNode: "null" or "node"
    engineEnabled,          \* this.isEnabled of the engine
    isRunning,              \* this.isRunning
    enginePending,          \* initialize() calls waiting for getUserMedia
    engineInits,            \* initialize() calls made so far
    engineDisposed,         \* dispose() has run and initialize() was not called since
    \* ---- VideoSynthSequencer and StateManager
    params,                 \* this.params: field -> value, as a numerator over 100*127
    stateHistory,           \* StateManager.history
    currentHistoryIndex,    \* StateManager.currentHistoryIndex
    saveCount,              \* snapshots handed to the StateManager so far
    \* ---- environment
    timers,                 \* armed setTimeout timers: [id, due]
    timerSeq,               \* timer ids handed out so far
    localStorage,           \* key -> persisted document
    now,                    \* the clock, in ms
    probe,                  \* the message under test of SpecScale
    call                    \* the operation invoked last, with its arguments

mapperVars == <<mappings, activeValues, lastUpdateTime, onValueChangeCallback, notified>>

\* The mapper's own fields other than the table the learner reads.
mapperRest == <<activeValues, lastUpdateTime, onValueChangeCallback, notified>>

learnVars == <<isLearning, learningTarget, learnTimeout, tempCCHandler, customMappings,
               learnEvents, onCCCallback, timers, timerSeq, localStorage>>

videoVars == <<videos, currentIndex, isPlaying, elementPaused, playPending,
               loading, addCalls, playbackRate, videoErrors>>

deviceVars == <<midiAccess, inputs, activeDevice, isEnabled, onmidimessage,
                onstatechange, ports, initPending, disposed>>

\* What the operations of the mapper, the learner and the playlist never touch.
beatVars == <<beatDetector, sensitivity, threshold, minTimeBetweenBeats, lastBeatTime,
              isKick, isSnare, isHiHat, energyHistory, frameLog>>

peakVars == <<frequencyAnalyzer, bands, peakHoldTimers, holdTimers, holdSeq, lastRaise>>

engineVars == <<audioContext, microphone, analyzer, source, gainNode, engineEnabled,
                isRunning, enginePending, engineInits, engineDisposed>>

appVars == <<params, stateHistory, currentHistoryIndex, saveCount>>

quietVars == <<deviceVars, wasActive, exported, exportedValues, beatVars, peakVars,
               engineVars, appVars>>

vars == <<mappings, activeValues, lastUpdateTime, onValueChangeCallback, notified,
          isLearning, learningTarget, learnTimeout, tempCCHandler, customMappings,
          learnEvents, onCCCallback, midiAccess, inputs, activeDevice, isEnabled,
          onmidimessage, onstatechange, ports, initPending, disposed, wasActive,
          ccEvents,
          videos, currentIndex, isPlaying, elementPaused, playPending, loading, addCalls,
          playbackRate, videoErrors,
          beatDetector, sensitivity, threshold, minTimeBetweenBeats, lastBeatTime,
          isKick, isSnare, isHiHat, energyHistory, frameLog,
          frequencyAnalyzer, bands, peakHoldTimers, holdTimers, holdSeq, lastRaise,
          audioContext, microphone, analyzer, source, gainNode, engineEnabled,
          isRunning, enginePending, engineInits, engineDisposed,
          params, stateHistory, currentHistoryIndex, saveCount,
          timers, timerSeq, localStorage, exported, exportedValues, now, probe, call>>

----------------------------------------------------------------------------
(* MIDIMapper *)

CCMin == 35
CCMax == 98
MidiMax == 127

ccRange == [min |-> CCMin, max |-> CCMax]

\* Row i holds the descriptor of CC 34+i; min, max and default in hundredths.
MappingRows == <<
    [name |-> "Video Playback Speed", min |-> 25, max |-> 400, default |-> 100, target |-> "video.playbackRate", category |-> "video"],
    [name |-> "Video Opacity", min |-> 0, max |-> 100, default |-> 100, target |-> "video.opacity", category |-> "video"],
    [name |-> "Video Saturation", min |-> -100, max |-> 200, default |-> 100, target |-> "video.saturation", category |-> "video"],
    [name |-> "Video Hue Shift", min |-> 0, max |-> 36000, default |-> 0, target |-> "video.hueShift", category |-> "video"],
    [name |-> "Video Brightness", min |-> -100, max |-> 100, default |-> 0, target |-> "video.brightness", category |-> "video"],
    [name |-> "Video Contrast", min |-> 0, max |-> 200, default |-> 100, target |-> "video.contrast", category |-> "video"],
    [name |-> "Video Blur Amount", min |-> 0, max |-> 2000, default |-> 0, target |-> "video.blur", category |-> "video"],
    [name |-> "Chromatic Aberration", min |-> 0, max |-> 5, default |-> 0, target |-> "video.chromaticAberration", category |-> "video"],
    [name |-> "Video Scale", min |-> 50, max |-> 300, default |-> 100, target |-> "video.scale", category |-> "video"],
    [name |-> "Video Rotation Speed", min |-> -200, max |-> 200, default |-> 0, target |-> "video.rotationSpeed", category |-> "video"],
    [name |-> "Kaleidoscope Segments", min |-> 100, max |-> 1200, default |-> 100, target |-> "video.kaleidoscope", category |-> "video"],
    [name |-> "Particle Count", min |-> 0, max |-> 500000, default |-> 100000, target |-> "particles.count", category |-> "particles"],
    [name |-> "Particle Size", min |-> 10, max |-> 2000, default |-> 200, target |-> "particles.size", category |-> "particles"],
    [name |-> "Particle Speed", min |-> 0, max |-> 1000, default |-> 100, target |-> "particles.speed", category |-> "particles"],
    [name |-> "Particle Spread", min |-> 0, max |-> 10000, default |-> 2000, target |-> "particles.spread", category |-> "particles"],
    [name |-> "Particle Lifetime", min |-> 50, max |-> 1000, default |-> 300, target |-> "particles.lifetime", category |-> "particles"],
    [name |-> "Particle Gravity", min |-> -500, max |-> 500, default |-> 0, target |-> "particles.gravity", category |-> "particles"],
    [name |-> "Particle Turbulence", min |-> 0, max |-> 500, default |-> 0, target |-> "particles.turbulence", category |-> "particles"],
    [name |-> "Particle Trail Length", min |-> 0, max |-> 5000, default |-> 0, target |-> "particles.trailLength", category |-> "particles"],
    [name |-> "Audio Reactivity Amount", min |-> 0, max |-> 200, default |-> 50, target |-> "particles.audioReactivity", category |-> "particles"],
    [name |-> "Particle Color Hue", min |-> 0, max |-> 36000, default |-> 20000, target |-> "particles.colorHue", category |-> "particles"],
    [name |-> "Particle Opacity", min |-> 0, max |-> 100, default |-> 80, target |-> "particles.opacity", category |-> "particles"],
    [name |-> "Emission Rate", min |-> 0, max |-> 20000, default |-> 5000, target |-> "particles.emissionRate", category |-> "particles"],
    [name |-> "Mesh Displacement Amount", min |-> 0, max |-> 500, default |-> 0, target |-> "mesh.displacement", category |-> "geometry"],
    [name |-> "Mesh Rotation X", min |-> -314, max |-> 314, default |-> 0, target |-> "mesh.rotationX", category |-> "geometry"],
    [name |-> "Mesh Rotation Y", min |-> -314, max |-> 314, default |-> 0, target |-> "mesh.rotationY", category |-> "geometry"],
    [name |-> "Mesh Rotation Z", min |-> -314, max |-> 314, default |-> 0, target |-> "mesh.rotationZ", category |-> "geometry"],
    [name |-> "Mesh Scale", min |-> 10, max |-> 500, default |-> 100, target |-> "mesh.scale", category |-> "geometry"],
    [name |-> "Wireframe Thickness", min |-> 0, max |-> 500, default |-> 0, target |-> "mesh.wireframeThickness", category |-> "geometry"],
    [name |-> "Vertex Noise Amount", min |-> 0, max |-> 200, default |-> 0, target |-> "mesh.vertexNoise", category |-> "geometry"],
    [name |-> "Mesh Opacity", min |-> 0, max |-> 100, default |-> 100, target |-> "mesh.opacity", category |-> "geometry"],
    [name |-> "Normal Map Strength", min |-> 0, max |-> 200, default |-> 100, target |-> "mesh.normalStrength", category |-> "geometry"],
    [name |-> "Metalness", min |-> 0, max |-> 100, default |-> 50, target |-> "mesh.metalness", category |-> "geometry"],
    [name |-> "Roughness", min |-> 0, max |-> 100, default |-> 50, target |-> "mesh.roughness", category |-> "geometry"],
    [name |-> "Bloom Strength", min |-> 0, max |-> 300, default |-> 50, target |-> "post.bloomStrength", category |-> "post"],
    [name |-> "Bloom Threshold", min |-> 0, max |-> 100, default |-> 50, target |-> "post.bloomThreshold", category |-> "post"],
    [name |-> "Bloom Radius", min |-> 0, max |-> 100, default |-> 50, target |-> "post.bloomRadius", category |-> "post"],
    [name |-> "Glitch Intensity", min |-> 0, max |-> 100, default |-> 0, target |-> "post.glitch", category |-> "post"],
    [name |-> "RGB Split Amount", min |-> 0, max |-> 10, default |-> 0, target |-> "post.rgbSplit", category |-> "post"],
    [name |-> "Pixelation Amount", min |-> 100, max |-> 10000, default |-> 100, target |-> "post.pixelation", category |-> "post"],
    [name |-> "Vignette Strength", min |-> 0, max |-> 100, default |-> 0, target |-> "post.vignette", category |-> "post"],
    [name |-> "Film Grain Amount", min |-> 0, max |-> 100, default |-> 0, target |-> "post.filmGrain", category |-> "post"],
    [name |-> "Color Grading Temp", min |-> -100, max |-> 100, default |-> 0, target |-> "post.colorTemp", category |-> "post"],
    [name |-> "Color Grading Tint", min |-> -100, max |-> 100, default |-> 0, target |-> "post.colorTint", category |-> "post"],
    [name |-> "Distortion Amount", min |-> 0, max |-> 100, default |-> 0, target |-> "post.distortion", category |-> "post"],
    [name |-> "Feedback Amount", min |-> 0, max |-> 95, default |-> 0, target |-> "post.feedback", category |-> "post"],
    [name |-> "Camera FOV", min |-> 2000, max |-> 12000, default |-> 7500, target |-> "camera.fov", category |-> "camera"],
    [name |-> "Camera Position X", min |-> -5000, max |-> 5000, default |-> 0, target |-> "camera.positionX", category |-> "camera"],
    [name |-> "Camera Position Y", min |-> -5000, max |-> 5000, default |-> 0, target |-> "camera.positionY", category |-> "camera"],
    [name |-> "Camera Position Z", min |-> -5000, max |-> 5000, default |-> 3000, target |-> "camera.positionZ", category |-> "camera"],
    [name |-> "Camera Rotation Speed", min |-> 0, max |-> 200, default |-> 0, target |-> "camera.rotationSpeed", category |-> "camera"],
    [name |-> "Camera Shake Amount", min |-> 0, max |-> 500, default |-> 0, target |-> "camera.shake", category |-> "camera"],
    [name |-> "Background Color Hue", min |-> 0, max |-> 36000, default |-> 22000, target |-> "scene.bgColorHue", category |-> "camera"],
    [name |-> "Background Brightness", min |-> 0, max |-> 100, default |-> 10, target |-> "scene.bgBrightness", category |-> "camera"],
    [name |-> "Fog Density", min |-> 0, max |-> 10, default |-> 0, target |-> "scene.fogDensity", category |-> "camera"],
    [name |-> "Fog Color Hue", min |-> 0, max |-> 36000, default |-> 20000, target |-> "scene.fogColorHue", category |-> "camera"],
    [name |-> "Bass -> Particle Size", min |-> 0, max |-> 200, default |-> 0, target |-> "audioMod.bassToParticleSize", category |-> "audio"],
    [name |-> "Mid -> Color Shift", min |-> 0, max |-> 200, default |-> 0, target |-> "audioMod.midToColorShift", category |-> "audio"],
    [name |-> "Treble -> Bloom", min |-> 0, max |-> 200, default |-> 0, target |-> "audioMod.trebleToBloom", category |-> "audio"],
    [name |-> "Kick -> Flash Intensity", min |-> 0, max |-> 200, default |-> 0, target |-> "audioMod.kickToFlash", category |-> "audio"],
    [name |-> "Overall -> Scale Pulse", min |-> 0, max |-> 200, default |-> 0, target |-> "audioMod.overallToScale", category |-> "audio"],
    [name |-> "Audio Smoothing", min |-> 0, max |-> 99, default |-> 80, target |-> "audioMod.smoothing", category |-> "audio"],
    [name |-> "Beat Detection Sensitivity", min |-> 10, max |-> 200, default |-> 100, target |-> "audioMod.beatSensitivity", category |-> "audio"],
    [name |-> "Global Audio Intensity", min |-> 0, max |-> 300, default |-> 100, target |-> "audioMod.globalIntensity", category |-> "audio"]
>>

initializeDefaultMappings == [cc \in CCMin..CCMax |-> MappingRows[cc - CCMin + 1]]

\* The empty Map.
EmptyMap == [x \in {} |-> 0]

\* Map.set(k, v)
MapSet(m, k, v) == [x \in (DOMAIN m) \cup {k} |-> IF x = k THEN v ELSE m[x]]

\* Map.delete(k)
MapDelete(m, k) == [x \in (DOMAIN m) \ {k} |-> m[x]]

\* Scaling that multiplies the normalized value by max instead of by the
\* width of the range.
Scaled_ByMax(mapping, value) == mapping.min * MidiMax + value * mapping.max

\* normalized = value / 127; scaled = min + normalized * (max - min),
\* as a numerator over 100*127.
Scaled(mapping, value) == mapping.min * MidiMax + value * (mapping.max - mapping.min)

\* getValue(cc): the stored value, or null (here: the empty set).
getValue(av, cc) == IF cc \in DOMAIN av THEN {av[cc]} ELSE {}

\* handleCC that notifies the listener before it stores the value.
handleCC_NotifyFirst(cc, value) ==
    IF cc < ccRange.min \/ cc > ccRange.max \/ cc \notin DOMAIN mappings
    THEN /\ notified' = <<>>
         /\ UNCHANGED <<mappings, activeValues, lastUpdateTime, onValueChangeCallback>>
    ELSE LET mapping == mappings[cc]
             scaled  == Scaled(mapping, value)
         IN  /\ notified' = IF onValueChangeCallback # "null"
                            THEN <<[cc |-> cc, value |-> scaled, midiValue |-> value,
                                    mapping |-> mapping, seen |-> getValue(activeValues, cc)]>>
                            ELSE <<>>
             /\ activeValues' = MapSet(activeValues, cc, scaled)
             /\ lastUpdateTime' = MapSet(lastUpdateTime, cc, now)
             /\ UNCHANGED <<mappings, onValueChangeCallback>>

\* handleCC that timestamps the message before it checks the range.
handleCC_StampFirst(cc, value) ==
    /\ lastUpdateTime' = MapSet(lastUpdateTime, cc, now)
    /\ UNCHANGED <<mappings, onValueChangeCallback>>
    /\ IF cc < ccRange.min \/ cc > ccRange.max \/ cc \notin DOMAIN mappings
       THEN /\ notified' = <<>>
            /\ UNCHANGED activeValues
       ELSE LET mapping == mappings[cc]
                scaled  == Scaled(mapping, value)
                stored  == MapSet(activeValues, cc, scaled)
            IN  /\ activeValues' = stored
                /\ notified' = IF onValueChangeCallback # "null"
                               THEN <<[cc |-> cc, value |-> scaled, midiValue |-> value,
                                       mapping |-> mapping, seen |-> getValue(stored, cc)]>>
                               ELSE <<>>

\* handleCC(cc, value): the range check, the lookup, the store, the
\* timestamp, then the notification.  The listener is handed the scaled
\* value; "seen" is what getValue(cc) returns when it runs.
handleCC(cc, value) ==
    IF cc < ccRange.min \/ cc > ccRange.max
    THEN /\ notified' = <<>>
         /\ UNCHANGED <<mappings, activeValues, lastUpdateTime, onValueChangeCallback>>
    ELSE IF cc \notin DOMAIN mappings
    THEN /\ notified' = <<>>
         /\ UNCHANGED <<mappings, activeValues, lastUpdateTime, onValueChangeCallback>>
    ELSE LET mapping == mappings[cc]
             scaled  == Scaled(mapping, value)
             stored  == MapSet(activeValues, cc, scaled)
         IN  /\ activeValues' = stored
             /\ lastUpdateTime' = MapSet(lastUpdateTime, cc, now)
             /\ notified' = IF onValueChangeCallback # "null"
                            THEN <<[cc |-> cc, value |-> scaled, midiValue |-> value,
                                    mapping |-> mapping, seen |-> getValue(stored, cc)]>>
                            ELSE <<>>
             /\ UNCHANGED <<mappings, onValueChangeCallback>>

\* The MIDIMapper constructor (loadMappings finds no saved document).
MapperInit ==
    /\ mappings = initializeDefaultMappings
    /\ activeValues = EmptyMap
    /\ lastUpdateTime = EmptyMap
    /\ onValueChangeCallback = "app"
    /\ notified = <<>>

\* A stored default, in the unit of the stored values (see the header).
DefaultValue(mapping) == mapping.default * MidiMax

MapperState == [activeValues |-> activeValues, lastUpdateTime |-> lastUpdateTime]

\* The mutant leaves the entries of the table in place.
resetToDefaults_KeepValues(M) ==
    [M EXCEPT !.activeValues =
                  [cc \in (DOMAIN M.activeValues) \cup (DOMAIN mappings) |->
                      IF cc \in DOMAIN M.activeValues THEN M.activeValues[cc]
                      ELSE DefaultValue(mappings[cc])],
              !.lastUpdateTime = EmptyMap]

\* resetToDefaults()
resetToDefaults(M) ==
    [M EXCEPT !.activeValues = [cc \in DOMAIN mappings |-> DefaultValue(mappings[cc])],
              !.lastUpdateTime = EmptyMap]

\* resetCC(cc)
resetCC(M, cc) ==
    IF cc \in DOMAIN mappings
    THEN [M EXCEPT !.activeValues = MapSet(@, cc, DefaultValue(mappings[cc]))]
    ELSE M

\* String(n) for the numbers a MIDI data byte can be: the key a number
\* turns into when it indexes an object.
DecimalKeys == [n \in 0..MidiMax |-> ToString(n)]

\* parseInt(key) for the key of a document: the number the decimal string
\* denotes.  (The documents here have keys that are controller numbers.)
parseInt(key) == CHOOSE n \in 0..MidiMax : DecimalKeys[n] = key

\* Object.entries(data), as the keys in the order it yields them: integer
\* keys ascending.
ObjectEntries(keys) ==
    SelectSeq([i \in 1..(MidiMax + 1) |-> DecimalKeys[i - 1]], LAMBDA k : k \in keys)

MapperStorageKey == "midi-mapper-values"

\* The loop of loadMappings over the entries of the parsed document: every
\* entry is stored under parseInt of its key.
loadEntries(av, data, entries) ==
    LET loaded == {parseInt(entries[i]) : i \in 1..Len(entries)}
    IN  [cc \in (DOMAIN av) \cup loaded |->
            IF cc \in loaded THEN data[DecimalKeys[cc]] ELSE av[cc]]

\* loadMappings(), as the new active values.
loadMappings(av, storage) ==
    IF MapperStorageKey \notin DOMAIN storage
    THEN av
    ELSE LET data == storage[MapperStorageKey]
         IN  loadEntries(av, data, ObjectEntries(DOMAIN data))

\* saveMappings(), as the new store.  JSON.stringify of the object the loop
\* fills: the controller numbers become decimal keys.
saveMappings(av, storage) ==
    MapSet(storage, MapperStorageKey,
           [k \in {DecimalKeys[cc] : cc \in DOMAIN av} |-> av[parseInt(k)]])

\* The mutant writes each controller's default in place of its value.
exportMappings_Defaults(av) ==
    IF DOMAIN av \subseteq DOMAIN mappings
    THEN [threw |-> FALSE,
          data |-> [key \in {DecimalKeys[c] : c \in DOMAIN av} |->
                      LET cc == parseInt(key)
                      IN  {[value |-> DefaultValue(mappings[cc]), name |-> mappings[cc].name,
                            target |-> mappings[cc].target]}]]
    ELSE [threw |-> TRUE, data |-> EmptyMap]

\* exportMappings(): the document, or a TypeError when a stored key has no
\* mapping (mapping.name of undefined).
exportMappings(av) ==
    IF DOMAIN av \subseteq DOMAIN mappings
    THEN [threw |-> FALSE,
          data |-> [key \in {DecimalKeys[c] : c \in DOMAIN av} |->
                      LET cc == parseInt(key)
                      IN  {[value |-> av[cc], name |-> mappings[cc].name,
                            target |-> mappings[cc].target]}]]
    ELSE [threw |-> TRUE, data |-> EmptyMap]

\* The loop of importMappings over the entries of the document.  An entry
\* is {} (null) or {an object with a value}.  Entries are taken in order;
\* one whose number is out of range is passed over; info.value of null
\* throws, which ends the loop, and the catch block only logs.
importEntries(av, data, entries) ==
    LET InRange(key) == parseInt(key) >= ccRange.min /\ parseInt(key) <= ccRange.max
        throwing == {i \in 1..Len(entries) : InRange(entries[i]) /\ data[entries[i]] = {}}
        stop == IF throwing = {}
                THEN Len(entries) + 1
                ELSE CHOOSE i \in throwing : \A j \in throwing : i <= j
        applied == {parseInt(entries[i]) : i \in {j \in 1..(stop - 1) : InRange(entries[j])}}
    IN  [activeValues |->
            [cc \in (DOMAIN av) \cup applied |->
                IF cc \in applied
                THEN (CHOOSE info \in data[DecimalKeys[cc]] : TRUE).value
                ELSE av[cc]],
         threw |-> throwing # {}]

\* importMappings(data)
importMappings(av, data) == importEntries(av, data, ObjectEntries(DOMAIN data))

Call(op, a, b) == [op |-> op, a |-> a, b |-> b]

NoCall == Call("none", 0, 0)

----------------------------------------------------------------------------
(* MIDILearn.  Its methods call one another, so they are written as        *)
(* functions from the learner's state L (its own fields, the controller's  *)
(* listener slot it overwrites, the timers it arms, the store it saves to  *)
(* and the mapper's table, whose entries getMapping hands out by           *)
(* reference) to the state they leave behind.                              *)

learnTimeoutDuration == 10000

LearnState ==
    [isLearning |-> isLearning, learningTarget |-> learningTarget,
     learnTimeout |-> learnTimeout, tempCCHandler |-> tempCCHandler,
     customMappings |-> customMappings, learnEvents |-> learnEvents,
     onCCCallback |-> onCCCallback, timers |-> timers, timerSeq |-> timerSeq,
     localStorage |-> localStorage, mappings |-> mappings]

SetLearnState(L) ==
    /\ isLearning' = L.isLearning
    /\ learningTarget' = L.learningTarget
    /\ learnTimeout' = L.learnTimeout
    /\ tempCCHandler' = L.tempCCHandler
    /\ customMappings' = L.customMappings
    /\ learnEvents' = L.learnEvents
    /\ onCCCallback' = L.onCCCallback
    /\ timers' = L.timers
    /\ timerSeq' = L.timerSeq
    /\ localStorage' = L.localStorage
    /\ mappings' = L.mappings

\* A callback of MIDILearn being invoked.
LearnEvent(cb, learnedCC, targetCC, name) ==
    [cb |-> cb, learnedCC |-> learnedCC, targetCC |-> targetCC, parameterName |-> name]

\* clearTimeout that leaves the timer pending.
clearTimeout_Keep(tm, id) == tm

\* clearTimeout(id)
clearTimeout(tm, id) == {t \in tm : t.id # id}

\* JSON.stringify of a Map written out as an object: the keys become strings.
JSONDocument(m) ==
    [k \in {ToString(c) : c \in DOMAIN m} |->
        m[CHOOSE c \in DOMAIN m : ToString(c) = k]]

LearnStorageKey == "midi-learn-custom-mappings"

\* A null entry of a route document, and of the Map it is loaded into.
NullRoute == [null |-> TRUE]

\* saveCustomMappings().  The loop reads mapping.originalCC of every entry,
\* which throws on a null one; the catch block logs, and nothing is stored.
saveCustomMappings(L) ==
    IF \E cc \in DOMAIN L.customMappings : L.customMappings[cc] = NullRoute
    THEN L
    ELSE LET data == [cc \in DOMAIN L.customMappings |->
                         [originalCC |-> L.customMappings[cc].originalCC,
                          mapping |-> L.customMappings[cc].mapping]]
         IN  [L EXCEPT !.localStorage = MapSet(@, LearnStorageKey, JSONDocument(data))]

\* endLearning()
endLearning(L) ==
    LET L1 == [L EXCEPT !.isLearning = FALSE, !.learningTarget = {}]
        L2 == IF L1.learnTimeout # {}
              THEN [L1 EXCEPT !.timers = clearTimeout(L1.timers, CHOOSE id \in L1.learnTimeout : TRUE),
                              !.learnTimeout = {}]
              ELSE L1
    IN  IF L2.tempCCHandler # "null"
        THEN [L2 EXCEPT !.onCCCallback = "null", !.tempCCHandler = "null"]
        ELSE L2

\* cancelLearning()
cancelLearning(L) ==
    IF ~L.isLearning
    THEN L
    ELSE endLearning([L EXCEPT !.learnEvents = Append(@, LearnEvent("cancel", 0, 0, ""))])

\* handleLearnTimeout that notifies but does not end the session.
handleLearnTimeout_NoEnd(L) ==
    [L EXCEPT !.learnEvents = Append(@, LearnEvent("timeout", 0, 0, ""))]

\* handleLearnTimeout()
handleLearnTimeout(L) ==
    endLearning([L EXCEPT !.learnEvents = Append(@, LearnEvent("timeout", 0, 0, ""))])

\* startLearning that overwrites a running session without cancelling it.
startLearning_NoCancel(L, targetCC, parameterName) ==
    LET id == L.timerSeq + 1
    IN  [L EXCEPT !.isLearning = TRUE,
                  !.learningTarget = {[cc |-> targetCC, name |-> parameterName]},
                  !.timerSeq = id,
                  !.timers = @ \cup {[id |-> id, due |-> now + learnTimeoutDuration]},
                  !.learnTimeout = {id},
                  !.learnEvents = Append(@, LearnEvent("start", 0, targetCC, parameterName)),
                  !.tempCCHandler = "set",
                  !.onCCCallback = "learn"]

\* startLearning(targetCC, parameterName)
startLearning(L, targetCC, parameterName) ==
    LET L1 == IF L.isLearning THEN cancelLearning(L) ELSE L
        id == L1.timerSeq + 1
    IN  [L1 EXCEPT !.isLearning = TRUE,
                   !.learningTarget = {[cc |-> targetCC, name |-> parameterName]},
                   !.timerSeq = id,
                   !.timers = @ \cup {[id |-> id, due |-> now + learnTimeoutDuration]},
                   !.learnTimeout = {id},
                   !.learnEvents = Append(@, LearnEvent("start", 0, targetCC, parameterName)),
                   !.tempCCHandler = "set",
                   !.onCCCallback = "learn"]

\* handleLearnCC that makes the route by moving the target's descriptor to
\* the learned number in the mapper's own table.
handleLearnCC_Rebind(L, cc) ==
    IF ~L.isLearning
    THEN L
    ELSE IF cc < ccRange.min \/ cc > ccRange.max
    THEN L
    ELSE LET target == CHOOSE t \in L.learningTarget : TRUE
             L1 == IF target.cc \in DOMAIN L.mappings
                   THEN LET routed == [L EXCEPT !.mappings =
                                           MapSet(@, cc, L.mappings[target.cc])]
                            saved  == saveCustomMappings(routed)
                        IN  [saved EXCEPT !.learnEvents =
                                Append(@, LearnEvent("success", cc, target.cc, target.name))]
                   ELSE L
         IN  endLearning(L1)

\* handleLearnCC without the check of the received number against ccRange.
handleLearnCC_NoRange(L, cc) ==
    IF ~L.isLearning
    THEN L
    ELSE LET target == CHOOSE t \in L.learningTarget : TRUE
             L1 == IF target.cc \in DOMAIN L.mappings
                   THEN LET routed == [L EXCEPT !.customMappings =
                                           MapSet(@, cc, [originalCC |-> target.cc,
                                                          mapping |-> L.mappings[target.cc]])]
                            saved  == saveCustomMappings(routed)
                        IN  [saved EXCEPT !.learnEvents =
                                Append(@, LearnEvent("success", cc, target.cc, target.name))]
                   ELSE L
         IN  endLearning(L1)

\* handleLearnCC(cc); getMapping(target) is mappings.get(target) ?? null.
handleLearnCC(L, cc) ==
    IF ~L.isLearning
    THEN L
    ELSE IF cc < ccRange.min \/ cc > ccRange.max
    THEN L
    ELSE LET target == CHOOSE t \in L.learningTarget : TRUE
             L1 == IF target.cc \in DOMAIN L.mappings
                   THEN LET routed == [L EXCEPT !.customMappings =
                                           MapSet(@, cc, [originalCC |-> target.cc,
                                                          mapping |-> L.mappings[target.cc]])]
                            saved  == saveCustomMappings(routed)
                        IN  [saved EXCEPT !.learnEvents =
                                Append(@, LearnEvent("success", cc, target.cc, target.name))]
                   ELSE L
         IN  endLearning(L1)

\* processCC that follows a route whose destination has a route of its own.
processCC_Chain(cc, value) ==
    LET hop(c) == IF c \in DOMAIN customMappings /\ customMappings[c] # NullRoute
                  THEN customMappings[c].originalCC
                  ELSE c
    IN  handleCC(hop(hop(cc)), value)

\* processCC that ignores the route table.
processCC_NoRoute(cc, value) == handleCC(cc, value)

\* processCC(cc, value)
processCC(cc, value) ==
    IF cc \in DOMAIN customMappings /\ customMappings[cc] # NullRoute
    THEN handleCC(customMappings[cc].originalCC, value)
    ELSE handleCC(cc, value)

\* removeCustomMapping(cc): saves only when an entry was deleted.
removeCustomMapping(L, cc) ==
    IF cc \in DOMAIN L.customMappings
    THEN saveCustomMappings([L EXCEPT !.customMappings = MapDelete(@, cc)])
    ELSE L

\* clearAllCustomMappings()
clearAllCustomMappings(L) ==
    saveCustomMappings([L EXCEPT !.customMappings = EmptyMap])

\* The entries of a parsed route document put into the Map under parseInt
\* of their keys.
setEntries(cm, data) ==
    LET loaded == {parseInt(k) : k \in DOMAIN data}
    IN  [cc \in (DOMAIN cm) \cup loaded |->
            IF cc \in loaded THEN data[DecimalKeys[cc]] ELSE cm[cc]]

\* loadCustomMappings(): nothing is loaded when the key is missing.
loadCustomMappings(L) ==
    IF LearnStorageKey \notin DOMAIN L.localStorage
    THEN L
    ELSE [L EXCEPT !.customMappings = setEntries(@, L.localStorage[LearnStorageKey])]

\* importCustomMappings(data), data being {} for null and {document}
\* otherwise.  The table is cleared first; Object.entries(null) throws, and
\* the catch block logs, so the save is never reached.
importCustomMappings(L, data) ==
    LET cleared == [L EXCEPT !.customMappings = EmptyMap]
    IN  IF data = {}
        THEN cleared
        ELSE saveCustomMappings(
                 [cleared EXCEPT !.customMappings =
                     setEntries(@, CHOOSE d \in data : TRUE)])

\* The MIDILearn constructor (loadCustomMappings finds no saved document).
LearnInit ==
    /\ isLearning = FALSE
    /\ learningTarget = {}
    /\ learnTimeout = {}
    /\ tempCCHandler = "null"
    /\ customMappings = EmptyMap
    /\ learnEvents = <<>>

\* A learner operation starts with an empty record of invoked callbacks.
Entering == [LearnState EXCEPT !.learnEvents = <<>>]

----------------------------------------------------------------------------
(* MIDIController: the device set, the listener slot and the message      *)
(* filter.  A port is known by its id; the MIDIAccess object the browser   *)
(* hands out keeps the onstatechange handler it was given.                 *)

StatusControlChange == 176      \* 0xB0

ControllerState ==
    [midiAccess |-> midiAccess, inputs |-> inputs, activeDevice |-> activeDevice,
     isEnabled |-> isEnabled, onmidimessage |-> onmidimessage,
     onstatechange |-> onstatechange]

SetControllerState(K) ==
    /\ midiAccess' = K.midiAccess
    /\ inputs' = K.inputs
    /\ activeDevice' = K.activeDevice
    /\ isEnabled' = K.isEnabled
    /\ onmidimessage' = K.onmidimessage
    /\ onstatechange' = K.onstatechange

Range(seq) == {seq[i] : i \in 1..Len(seq)}

\* Map.prototype.set on the keys of a Map: a new key goes last, a present
\* key keeps its place.
KeySet(seq, k) == IF k \in Range(seq) THEN seq ELSE Append(seq, k)

\* Map.prototype.delete on the keys of a Map.
KeyDelete(seq, k) == SelectSeq(seq, LAMBDA e : e # k)

\* enumerateInputs(), where accessInputs is this.midiAccess.inputs.
enumerateInputs(K, accessInputs) ==
    IF K.midiAccess = "null"
    THEN K
    ELSE [K EXCEPT !.inputs = accessInputs,
                   !.onmidimessage = @ \cup Range(accessInputs),
                   !.activeDevice = IF @ = {} /\ accessInputs # <<>>
                                    THEN {Head(accessInputs)} ELSE @]

\* initialize() after requestMIDIAccess resolved.
initializeGranted(K, accessInputs) ==
    enumerateInputs([K EXCEPT !.midiAccess = "access", !.isEnabled = TRUE,
                              !.onstatechange = TRUE], accessInputs)

\* initialize() in its catch block: the API is missing or access was refused.
initializeFailed(K) == [K EXCEPT !.isEnabled = FALSE]

\* The mutant keeps the active device when its port goes away.
handleStateChange_KeepActive(K, port, type, state) ==
    IF type # "input"
    THEN K
    ELSE IF state = "connected"
         THEN [K EXCEPT !.inputs = KeySet(@, port),
                        !.onmidimessage = @ \cup {port},
                        !.activeDevice = IF @ = {} THEN {port} ELSE @]
         ELSE IF state = "disconnected"
              THEN [K EXCEPT !.inputs = KeyDelete(K.inputs, port)]
              ELSE K

\* handleStateChange(event) with event.port = [id: port, type, state].
handleStateChange(K, port, type, state) ==
    IF type # "input"
    THEN K
    ELSE IF state = "connected"
         THEN [K EXCEPT !.inputs = KeySet(@, port),
                        !.onmidimessage = @ \cup {port},
                        !.activeDevice = IF @ = {} THEN {port} ELSE @]
         ELSE IF state = "disconnected"
              THEN LET rest == KeyDelete(K.inputs, port)
                   IN  [K EXCEPT !.inputs = rest,
                                 !.activeDevice =
                                     IF @ = {port}
                                     THEN IF rest = <<>> THEN {} ELSE {Head(rest)}
                                     ELSE @]
              ELSE K

\* setActiveDevice(deviceId); the boolean result is whether the state changed hands.
setActiveDevice(K, deviceId) ==
    IF deviceId \in Range(K.inputs) THEN [K EXCEPT !.activeDevice = {deviceId}] ELSE K

isReady(K) == K.isEnabled /\ K.midiAccess # "null"

\* disconnect()
disconnect(K) ==
    IF K.midiAccess # "null"
    THEN [K EXCEPT !.onmidimessage = @ \ Range(K.inputs),
                   !.inputs = <<>>,
                   !.activeDevice = {},
                   !.midiAccess = "null",
                   !.isEnabled = FALSE]
    ELSE K

\* The event object handed to the CC listener.
CCEvent(status, data1, data2) ==
    [cc |-> data1, value |-> data2, channel |-> status % 16]

\* The mutant takes only channel 0 for a control change.
handleMIDIMessage_ChannelZero(status, data1, data2) ==
    IF /\ status = StatusControlChange
       /\ data1 >= ccRange.min /\ data1 <= ccRange.max
       /\ onCCCallback # "null"
    THEN /\ ccEvents' = <<CCEvent(status, data1, data2)>>
         /\ IF onCCCallback = "app"
            THEN handleCC(data1, data2) /\ UNCHANGED learnVars
            ELSE SetLearnState(handleLearnCC(Entering, data1)) /\ UNCHANGED mapperRest
    ELSE /\ ccEvents' = <<>>
         /\ UNCHANGED mapperVars /\ UNCHANGED learnVars

\* handleMIDIMessage(event) with event.data = [status, data1, data2].
\* status & 0xF0 clears the channel nibble.  The listener is either the one
\* main.js registers, which calls midiMapper.handleCC, or MIDILearn's
\* temporary one, which calls handleLearnCC(data.cc).
handleMIDIMessage(status, data1, data2) ==
    LET messageType == status - (status % 16)
    IN  IF /\ messageType = StatusControlChange
           /\ data1 >= ccRange.min /\ data1 <= ccRange.max
           /\ onCCCallback # "null"
        THEN /\ ccEvents' = <<CCEvent(status, data1, data2)>>
             /\ IF onCCCallback = "app"
                THEN handleCC(data1, data2) /\ UNCHANGED learnVars
                ELSE SetLearnState(handleLearnCC(Entering, data1)) /\ UNCHANGED mapperRest
        ELSE /\ ccEvents' = <<>>
             /\ UNCHANGED mapperVars /\ UNCHANGED learnVars

\* The state the constructor leaves, with the CC listener main.js registers
\* in setupMIDICallbacks.
ControllerInit ==
    /\ onCCCallback = "app"
    /\ midiAccess = "null"
    /\ inputs = <<>>
    /\ activeDevice = {}
    /\ isEnabled = FALSE
    /\ onmidimessage = {}
    /\ onstatechange = FALSE
    /\ initPending = 0
    /\ disposed = FALSE
    /\ wasActive = {}
    /\ ccEvents = <<>>

EnvInit ==
    /\ ports = <<>>
    /\ exported = {}
    /\ exportedValues = EmptyMap
    /\ timers = {}
    /\ timerSeq = 0
    /\ localStorage = EmptyMap
    /\ now = 0


----------------------------------------------------------------------------
(* VideoManager.  An entry is known by its id; the id of the entry made by *)
(* the k-th addVideo call is k.  The methods call one another, so they are *)
(* functions from the manager's state V (its fields and the state of the   *)
(* entries' media elements) to the state they leave behind.                *)
(*                                                                         *)
(* Media elements: play() clears element.paused and returns a promise that *)
(* settles later; pause() sets element.paused and rejects pending play()   *)
(* promises, whose continuation in VideoManager.play only reports the      *)
(* error.  All promises pending on one element settle together, so one     *)
(* pending mark per element is kept.                                       *)

VideoState ==
    [videos |-> videos, currentIndex |-> currentIndex, isPlaying |-> isPlaying,
     elementPaused |-> elementPaused, playPending |-> playPending,
     playbackRate |-> playbackRate]

SetVideoState(V) ==
    /\ videos' = V.videos
    /\ currentIndex' = V.currentIndex
    /\ isPlaying' = V.isPlaying
    /\ elementPaused' = V.elementPaused
    /\ playPending' = V.playPending
    /\ playbackRate' = V.playbackRate

\* Array.findIndex(v => v.id === id): the 0-based index, or -1.
findIndex(vs, id) ==
    IF \E i \in 1..Len(vs) : vs[i] = id
    THEN (CHOOSE i \in 1..Len(vs) : vs[i] = id /\ \A j \in 1..(i - 1) : vs[j] # id) - 1
    ELSE -1

\* Array.splice(index, 1)
SpliceOut(vs, index) ==
    [i \in 1..(Len(vs) - 1) |-> IF i <= index THEN vs[i] ELSE vs[i + 1]]

\* Array.splice(index, 0, v)
SpliceIn(vs, index, v) ==
    [i \in 1..(Len(vs) + 1) |->
        IF i <= index THEN vs[i] ELSE IF i = index + 1 THEN v ELSE vs[i - 1]]

Min(a, b) == IF a <= b THEN a ELSE b

\* element.play()
elementPlay(V, id) ==
    [V EXCEPT !.elementPaused[id] = FALSE, !.playPending = @ \cup {id}]

\* element.pause()
elementPause(V, id) ==
    [V EXCEPT !.elementPaused[id] = TRUE, !.playPending = @ \ {id}]

\* element.load(): the load algorithm pauses the element and rejects its
\* pending play() promises.
elementLoad(V, id) ==
    [V EXCEPT !.elementPaused[id] = TRUE, !.playPending = @ \ {id}]

\* getCurrentVideo(): this.videos[this.currentIndex] || null
getCurrentVideo(V) ==
    IF V.currentIndex >= 0 /\ V.currentIndex < Len(V.videos)
    THEN {V.videos[V.currentIndex + 1]}
    ELSE {}

\* play(), up to its await
play(V) ==
    IF Len(V.videos) = 0
    THEN V
    ELSE LET current == getCurrentVideo(V)
         IN  IF current # {}
             THEN elementPlay(V, CHOOSE id \in current : TRUE)
             ELSE V

\* preloadNext()
preloadNext(V) ==
    IF Len(V.videos) <= 1
    THEN V
    ELSE LET nextIndex == (V.currentIndex + 1) % Len(V.videos)
         IN  elementLoad(V, V.videos[nextIndex + 1])

\* play(), after element.play() has resolved
playResolved(V, id) ==
    preloadNext([V EXCEPT !.isPlaying = TRUE, !.playPending = @ \ {id}])

\* play(), after element.play() has been refused or has failed: the element
\* is not playing and the error listener is told.
playRejected(V, id) ==
    [V EXCEPT !.elementPaused[id] = TRUE, !.playPending = @ \ {id}]

\* pause()
pause(V) ==
    LET current == getCurrentVideo(V)
    IN  IF current # {}
        THEN [elementPause(V, CHOOSE id \in current : TRUE) EXCEPT !.isPlaying = FALSE]
        ELSE V

\* togglePlayPause()
togglePlayPause(V) == IF V.isPlaying THEN pause(V) ELSE play(V)

\* nextVideo that stops at the last entry instead of wrapping.
nextVideo_NoWrap(V) ==
    IF Len(V.videos) = 0
    THEN V
    ELSE LET paused == pause(V)
         IN  play([paused EXCEPT !.currentIndex = Min(@ + 1, Len(V.videos) - 1)])

\* nextVideo()
nextVideo(V) ==
    IF Len(V.videos) = 0
    THEN V
    ELSE LET paused == pause(V)
         IN  play([paused EXCEPT !.currentIndex = (@ + 1) % Len(V.videos)])

\* previousVideo()
previousVideo(V) ==
    IF Len(V.videos) = 0
    THEN V
    ELSE LET paused == pause(V)
         IN  play([paused EXCEPT !.currentIndex = (@ - 1 + Len(V.videos)) % Len(V.videos)])

\* jumpToVideo(index)
jumpToVideo(V, index) ==
    IF index < 0 \/ index >= Len(V.videos)
    THEN V
    ELSE play([pause(V) EXCEPT !.currentIndex = index])

\* handleVideoEnded()
handleVideoEnded(V) == nextVideo(V)

\* removeVideo that leaves currentIndex alone when an earlier entry goes.
removeVideo_NoShift(V, id) ==
    LET index == findIndex(V.videos, id)
    IN  IF index = -1
        THEN V
        ELSE LET cleaned == elementPause(V, id)
                 removed == [cleaned EXCEPT
                                !.videos = SpliceOut(@, index),
                                !.elementPaused = [e \in (DOMAIN @) \ {id} |-> @[e]]]
             IN  IF index = removed.currentIndex /\ Len(removed.videos) > 0
                 THEN play([removed EXCEPT !.currentIndex = Min(@, Len(removed.videos) - 1)])
                 ELSE removed

\* removeVideo(id)
removeVideo(V, id) ==
    LET index == findIndex(V.videos, id)
    IN  IF index = -1
        THEN V
        ELSE LET cleaned == elementPause(V, id)
                 removed == [cleaned EXCEPT
                                !.videos = SpliceOut(@, index),
                                !.elementPaused = [e \in (DOMAIN @) \ {id} |-> @[e]]]
             IN  IF index < removed.currentIndex
                 THEN [removed EXCEPT !.currentIndex = @ - 1]
                 ELSE IF index = removed.currentIndex /\ Len(removed.videos) > 0
                 THEN play([removed EXCEPT !.currentIndex = Min(@, Len(removed.videos) - 1)])
                 ELSE removed

\* reorderVideo whose second case tests newIndex > currentIndex.
reorderVideo_StrictAfter(V, id, newIndex) ==
    LET oldIndex == findIndex(V.videos, id)
    IN  IF oldIndex = -1 \/ newIndex < 0 \/ newIndex >= Len(V.videos)
        THEN V
        ELSE LET moved == [V EXCEPT !.videos = SpliceIn(SpliceOut(@, oldIndex), newIndex, id)]
             IN  IF oldIndex = V.currentIndex
                 THEN [moved EXCEPT !.currentIndex = newIndex]
                 ELSE IF oldIndex < V.currentIndex /\ newIndex > V.currentIndex
                 THEN [moved EXCEPT !.currentIndex = @ - 1]
                 ELSE IF oldIndex > V.currentIndex /\ newIndex <= V.currentIndex
                 THEN [moved EXCEPT !.currentIndex = @ + 1]
                 ELSE moved

\* reorderVideo(id, newIndex)
reorderVideo(V, id, newIndex) ==
    LET oldIndex == findIndex(V.videos, id)
    IN  IF oldIndex = -1 \/ newIndex < 0 \/ newIndex >= Len(V.videos)
        THEN V
        ELSE LET moved == [V EXCEPT !.videos = SpliceIn(SpliceOut(@, oldIndex), newIndex, id)]
             IN  IF oldIndex = V.currentIndex
                 THEN [moved EXCEPT !.currentIndex = newIndex]
                 ELSE IF oldIndex < V.currentIndex /\ newIndex >= V.currentIndex
                 THEN [moved EXCEPT !.currentIndex = @ - 1]
                 ELSE IF oldIndex > V.currentIndex /\ newIndex <= V.currentIndex
                 THEN [moved EXCEPT !.currentIndex = @ + 1]
                 ELSE moved

\* dispose that empties the playlist and leaves the index where it was.
dispose_KeepIndex(V) ==
    [V EXCEPT !.videos = <<>>, !.isPlaying = FALSE,
              !.elementPaused = EmptyMap, !.playPending = {}]

\* dispose()
dispose(V) ==
    [V EXCEPT !.videos = <<>>, !.currentIndex = 0, !.isPlaying = FALSE,
              !.elementPaused = EmptyMap, !.playPending = {}]

\* addVideo(file), after 'loadedmetadata': the entry is pushed; the first
\* entry is played, another one is loaded if it is next in sequence.
addVideoLoaded(V, id) ==
    LET pushed == [V EXCEPT !.videos = Append(@, id),
                            !.elementPaused = MapSet(@, id, TRUE)]
    IN  IF Len(pushed.videos) = 1
        THEN play(pushed)
        ELSE LET nextIndex == (pushed.currentIndex + 1) % Len(pushed.videos)
             IN  IF findIndex(pushed.videos, id) = nextIndex
                 THEN elementLoad(pushed, id)
                 ELSE pushed

\* setPlaybackRate(rate): clamped to 0.25 .. 4.0
setPlaybackRate(V, rate) ==
    [V EXCEPT !.playbackRate = IF rate < 25 THEN 25 ELSE IF rate > 400 THEN 400 ELSE rate]

supportedFormats == {"video/mp4", "video/webm", "video/quicktime"}

\* The mutant takes every file.
isSupportedFormat_Any(mimeType) == TRUE

\* isSupportedFormat(mimeType): some supported format is contained in the
\* type.  The types handed in here carry no parameters, so that a format
\* is contained in a type exactly when it is the type.
isSupportedFormat(mimeType) == \E format \in supportedFormats : mimeType = format

\* An error caught by addVideo or play(): it is handed to onErrorCallback
\* and, by addVideo, thrown again to the caller.
VideoError(k, kind) == [call |-> k, kind |-> kind]

\* The VideoManager constructor.
VideoInit ==
    /\ videos = <<>>
    /\ currentIndex = 0
    /\ isPlaying = FALSE
    /\ elementPaused = EmptyMap
    /\ playPending = {}
    /\ loading = {}
    /\ addCalls = 0
    /\ playbackRate = 100
    /\ videoErrors = <<>>

----------------------------------------------------------------------------
(* BeatDetector.  A band level is 0 or 1 (silence or full scale); an       *)
(* energy is kept in tenths, the sensitivity and the threshold in tenths.  *)
(* energyAverage and energyVariance are recomputed from the history by     *)
(* every analyze() call before they are read, and are computed here where  *)
(* they are read.                                                          *)

historySize == 43
DefaultSensitivity == 10        \* 1.0
DefaultThreshold == 3           \* 0.3
DefaultMinTimeBetweenBeats == 100

BeatState ==
    [sensitivity |-> sensitivity, threshold |-> threshold,
     minTimeBetweenBeats |-> minTimeBetweenBeats, lastBeatTime |-> lastBeatTime,
     isKick |-> isKick, isSnare |-> isSnare, isHiHat |-> isHiHat,
     energyHistory |-> energyHistory, isBeat |-> FALSE]

SetBeatState(B) ==
    /\ sensitivity' = B.sensitivity
    /\ threshold' = B.threshold
    /\ minTimeBetweenBeats' = B.minTimeBetweenBeats
    /\ lastBeatTime' = B.lastBeatTime
    /\ isKick' = B.isKick
    /\ isSnare' = B.isSnare
    /\ isHiHat' = B.isHiHat
    /\ energyHistory' = B.energyHistory

RECURSIVE SumSeq(_)
SumSeq(seq) == IF seq = <<>> THEN 0 ELSE Head(seq) + SumSeq(Tail(seq))

Max(a, b) == IF a >= b THEN a ELSE b

\* energy > energyAverage + energyVariance * sensitivity * 1.5, where over
\* the n energies h of the history energyAverage is S/n and energyVariance
\* is sqrt(Q/n^3), with S the sum of h and Q the sum of (n*h[i] - S)^2.
\* For D = n*energy - S the comparison is D/n > 1.5 * (s/10) * sqrt(Q/n^3),
\* that is D > 0 and 400 * n * D^2 > 9 * s^2 * Q.
ExceedsAdaptive(history, energy, s) ==
    LET n == Len(history)
        S == SumSeq(history)
        D == n * energy - S
        Q == SumSeq([i \in 1..n |-> (n * history[i] - S) * (n * history[i] - S)])
    IN  D > 0 /\ 400 * n * D * D > 9 * s * s * Q

\* Both comparisons of detectBeat that look at the energy.
Exceeds(B, energy) ==
    ExceedsAdaptive(B.energyHistory, energy, B.sensitivity) /\ energy > B.threshold

\* The mutant reports every sample that exceeds the thresholds.
detectBeat_NoDebounce(B, energy, currentTime) ==
    IF Exceeds(B, energy)
    THEN [B EXCEPT !.lastBeatTime = currentTime, !.isBeat = TRUE]
    ELSE [B EXCEPT !.isBeat = FALSE]

\* detectBeat(energy, currentTime); the result is the field isBeat.
detectBeat(B, energy, currentTime) ==
    IF currentTime - B.lastBeatTime < B.minTimeBetweenBeats
    THEN [B EXCEPT !.isBeat = FALSE]
    ELSE IF Exceeds(B, energy)
         THEN [B EXCEPT !.lastBeatTime = currentTime, !.isBeat = TRUE]
         ELSE [B EXCEPT !.isBeat = FALSE]

\* kickEnergy > 0.4 * sensitivity && bass > mid * 1.2
detectKick(B, levels) ==
    /\ 100 * levels.bass + 50 * levels.subBass > 4 * B.sensitivity
    /\ 10 * levels.bass > 12 * levels.mid

\* snareEnergy > 0.35 * sensitivity && mid > bass * 0.8
detectSnare(B, levels) ==
    /\ 1000 * levels.lowMid + 500 * levels.mid > 35 * B.sensitivity
    /\ 10 * levels.mid > 8 * levels.bass

\* hiHatEnergy > 0.25 * sensitivity && presence > mid * 0.5
detectHiHat(B, levels) ==
    /\ 1000 * levels.presence + 500 * levels.air > 25 * B.sensitivity
    /\ 2 * levels.presence > levels.mid

\* analyze(levels) at performance.now() = currentTime.
analyze(B, levels, currentTime) ==
    LET energy == 7 * levels.bass + 3 * levels.lowMid
        pushed == Append(B.energyHistory, energy)
        kept == IF Len(pushed) > historySize THEN Tail(pushed) ELSE pushed
        B1 == detectBeat([B EXCEPT !.energyHistory = kept], energy, currentTime)
    IN  [B1 EXCEPT !.isKick = detectKick(B1, levels),
                   !.isSnare = detectSnare(B1, levels),
                   !.isHiHat = detectHiHat(B1, levels)]

\* setSensitivity(value): clamped to 0.1 .. 2.0
setSensitivity(B, value) == [B EXCEPT !.sensitivity = Max(1, Min(20, value))]

\* reset()
reset(B) ==
    [B EXCEPT !.energyHistory = <<>>, !.lastBeatTime = 0,
              !.isKick = FALSE, !.isSnare = FALSE, !.isHiHat = FALSE]

\* new BeatDetector(), made by AudioEngine.initialize().
BeatInit ==
    /\ beatDetector = "live"
    /\ sensitivity = DefaultSensitivity
    /\ threshold = DefaultThreshold
    /\ minTimeBetweenBeats = DefaultMinTimeBetweenBeats
    /\ lastBeatTime = 0
    /\ isKick = FALSE
    /\ isSnare = FALSE
    /\ isHiHat = FALSE
    /\ energyHistory = <<>>
    /\ frameLog = <<>>

----------------------------------------------------------------------------
(* FrequencyAnalyzer: the level and the held peak of each band.  A level   *)
(* is the average byte of the band's bins, written here in 1/255.  Two of  *)
(* the eight bands are kept; analyze() treats every band alike.            *)

peakHoldTime == 1000

BandOrder == <<"bass", "mid">>      \* Object.entries(this.bands), in order
BandNames == {BandOrder[i] : i \in 1..Len(BandOrder)}

PeakState ==
    [bands |-> bands, peakHoldTimers |-> peakHoldTimers,
     holdTimers |-> holdTimers, holdSeq |-> holdSeq]

SetPeakState(P) ==
    /\ bands' = P.bands
    /\ peakHoldTimers' = P.peakHoldTimers
    /\ holdTimers' = P.holdTimers
    /\ holdSeq' = P.holdSeq

\* The body of the loop of analyze() without its clearTimeout.
analyzeBand_NoClear(P, name, level, time) ==
    LET P1 == [P EXCEPT !.bands[name].level = level]
    IN  IF level > P.bands[name].peak
        THEN LET id == P.holdSeq + 1
             IN  [P1 EXCEPT !.bands[name].peak = level,
                            !.holdTimers = @ \cup
                                {[id |-> id, due |-> time + peakHoldTime, band |-> name]},
                            !.holdSeq = id,
                            !.peakHoldTimers[name] = {id}]
        ELSE P1

\* The body of the loop of analyze() for one band: the level is stored; a
\* level above the peak becomes the peak, the band's timer is cleared and a
\* new one is armed.
analyzeBand(P, name, level, time) ==
    LET P1 == [P EXCEPT !.bands[name].level = level]
    IN  IF level > P.bands[name].peak
        THEN LET cleared == IF P.peakHoldTimers[name] # {}
                            THEN clearTimeout(P.holdTimers,
                                     CHOOSE id \in P.peakHoldTimers[name] : TRUE)
                            ELSE P.holdTimers
                 id == P.holdSeq + 1
             IN  [P1 EXCEPT !.bands[name].peak = level,
                            !.holdTimers = cleared \cup
                                {[id |-> id, due |-> time + peakHoldTime, band |-> name]},
                            !.holdSeq = id,
                            !.peakHoldTimers[name] = {id}]
        ELSE P1

RECURSIVE analyzeFrom(_, _, _, _)
analyzeFrom(P, i, levels, time) ==
    IF i > Len(BandOrder) THEN P
    ELSE analyzeFrom(analyzeBand(P, BandOrder[i], levels[BandOrder[i]], time),
                     i + 1, levels, time)

\* FrequencyAnalyzer.analyze(), the levels being what
\* getAverageLevelInRange gives for each band.
analyzeBands(P, levels, time) == analyzeFrom(P, 1, levels, time)

\* The callback of a peak-hold timer: band.peak = band.level
peakHoldExpired(P, tm) ==
    [P EXCEPT !.bands[tm.band].peak = P.bands[tm.band].level,
              !.holdTimers = @ \ {tm}]

\* resetPeaks()
resetPeaks(P) ==
    [P EXCEPT !.bands = [name \in BandNames |->
                             [P.bands[name] EXCEPT !.peak = P.bands[name].level]],
              !.holdTimers = {tm \in @ : \A name \in BandNames : tm.id \notin P.peakHoldTimers[name]},
              !.peakHoldTimers = [name \in BandNames |-> {}]]

\* FrequencyAnalyzer.dispose()
disposeAnalyzer(P) ==
    [P EXCEPT !.holdTimers = {tm \in @ : \A name \in BandNames : tm.id \notin P.peakHoldTimers[name]},
              !.peakHoldTimers = [name \in BandNames |-> {}]]

\* new FrequencyAnalyzer(), made by AudioEngine.initialize().
PeakInit ==
    /\ frequencyAnalyzer = "live"
    /\ bands = [name \in BandNames |-> [level |-> 0, peak |-> 0]]
    /\ peakHoldTimers = [name \in BandNames |-> {}]
    /\ holdTimers = {}
    /\ holdSeq = 0
    /\ lastRaise = [name \in BandNames |-> {}]

----------------------------------------------------------------------------
(* AudioEngine: the microphone stream, the audio graph and the two         *)
(* analyzers it owns.  Its methods are functions of the engine's state E,  *)
(* which holds the state of the analyzers as E.peaks and E.beat.           *)

EngineState ==
    [audioContext |-> audioContext, microphone |-> microphone, analyzer |-> analyzer,
     source |-> source, gainNode |-> gainNode, isEnabled |-> engineEnabled,
     isRunning |-> isRunning, frequencyAnalyzer |-> frequencyAnalyzer,
     beatDetector |-> beatDetector, peaks |-> PeakState, beat |-> BeatState]

SetEngineState(E) ==
    /\ audioContext' = E.audioContext
    /\ microphone' = E.microphone
    /\ analyzer' = E.analyzer
    /\ source' = E.source
    /\ gainNode' = E.gainNode
    /\ engineEnabled' = E.isEnabled
    /\ isRunning' = E.isRunning
    /\ frequencyAnalyzer' = E.frequencyAnalyzer
    /\ beatDetector' = E.beatDetector
    /\ SetPeakState(E.peaks)
    /\ SetBeatState(E.beat)

\* The state of a new FrequencyAnalyzer.  The timers of the analyzer it
\* replaces act on that analyzer's bands only and are left out.
NewPeaks(P) ==
    [P EXCEPT !.bands = [name \in BandNames |-> [level |-> 0, peak |-> 0]],
              !.peakHoldTimers = [name \in BandNames |-> {}],
              !.holdTimers = {}]

\* The state of a new BeatDetector.
NewBeat(B) ==
    [B EXCEPT !.sensitivity = DefaultSensitivity, !.threshold = DefaultThreshold,
              !.minTimeBetweenBeats = DefaultMinTimeBetweenBeats,
              !.lastBeatTime = 0, !.isKick = FALSE, !.isSnare = FALSE,
              !.isHiHat = FALSE, !.energyHistory = <<>>]

\* initialize() up to its await: a new audio context is made.
initializeEngine(E) == [E EXCEPT !.audioContext = "open"]

\* initialize() after getUserMedia has resolved.  setupAudioNodes throws
\* when the context has been let go in the meantime, and the catch block
\* takes over.
engineGranted(E) ==
    LET E1 == [E EXCEPT !.microphone = "stream", !.isEnabled = TRUE]
    IN  IF E1.audioContext = "null"
        THEN [E1 EXCEPT !.isEnabled = FALSE]
        ELSE [E1 EXCEPT !.source = "node", !.analyzer = "node", !.gainNode = "node",
                        !.frequencyAnalyzer = "live", !.peaks = NewPeaks(@),
                        !.beatDetector = "live", !.beat = NewBeat(@)]

\* initialize() after getUserMedia has rejected: the catch block.
engineRejected(E) == [E EXCEPT !.isEnabled = FALSE]

\* start(); it returns false and does nothing when the engine is not enabled.
start(E) == IF ~E.isEnabled THEN E ELSE [E EXCEPT !.isRunning = TRUE]

\* stop()
stop(E) == [E EXCEPT !.isRunning = FALSE]

\* isReady()
engineIsReady(E) == E.isEnabled /\ E.audioContext # "null"

\* update() returns null, and does nothing, in these states.
updateReturnsNull(E) == ~E.isRunning \/ E.frequencyAnalyzer = "null"

\* update(): one analyze() of the frequency analyzer, whose levels go to
\* the beat detector.  A frame is the level of each band, 0 or 1.
update(E, levels, time) ==
    IF updateReturnsNull(E)
    THEN E
    ELSE [E EXCEPT !.peaks = analyzeBands(@, [name \in BandNames |-> 255 * levels[name]], time),
                   !.beat = analyze(@, levels, time)]

\* dispose()
disposeEngine(E) ==
    LET E1 == stop(E)
        E2 == [E1 EXCEPT !.source = "null", !.gainNode = "null", !.analyzer = "null",
                         !.microphone = "null", !.audioContext = "null"]
        E3 == IF E2.frequencyAnalyzer # "null"
              THEN [E2 EXCEPT !.peaks = disposeAnalyzer(@), !.frequencyAnalyzer = "null"]
              ELSE E2
        E4 == IF E3.beatDetector # "null"
              THEN [E3 EXCEPT !.beat = reset(@), !.beatDetector = "null"]
              ELSE E3
    IN  [E4 EXCEPT !.isEnabled = FALSE, !.isRunning = FALSE]

\* new AudioEngine()
EngineInit ==
    /\ audioContext = "null"
    /\ microphone = "null"
    /\ analyzer = "null"
    /\ source = "null"
    /\ gainNode = "null"
    /\ engineEnabled = FALSE
    /\ isRunning = FALSE
    /\ enginePending = 0
    /\ engineInits = 0
    /\ engineDisposed = FALSE

----------------------------------------------------------------------------
(* VideoSynthSequencer: the parameters the render update reads, and the    *)
(* listener that routes a mapper notification into them.  StateManager:    *)
(* the history of saved snapshots.                                         *)

\* initializeParameters(): each default in the unit of the stored values.
initializeParameters ==
    ("videoPlaybackRate" :> 100 * MidiMax) @@
    ("videoOpacity" :> 100 * MidiMax) @@
    ("videoSaturation" :> 100 * MidiMax) @@
    ("videoHueShift" :> 0 * MidiMax) @@
    ("videoBrightness" :> 0 * MidiMax) @@
    ("videoContrast" :> 100 * MidiMax) @@
    ("videoBlur" :> 0 * MidiMax) @@
    ("videoChromaticAberration" :> 0 * MidiMax) @@
    ("videoScale" :> 100 * MidiMax) @@
    ("videoRotationSpeed" :> 0 * MidiMax) @@
    ("videoKaleidoscope" :> 100 * MidiMax) @@
    ("particleCount" :> 100000 * MidiMax) @@
    ("particleSize" :> 200 * MidiMax) @@
    ("particleSpeed" :> 100 * MidiMax) @@
    ("particleSpread" :> 2000 * MidiMax) @@
    ("particleLifetime" :> 300 * MidiMax) @@
    ("particleGravity" :> 0 * MidiMax) @@
    ("particleTurbulence" :> 0 * MidiMax) @@
    ("particleTrailLength" :> 0 * MidiMax) @@
    ("particleAudioReactivity" :> 50 * MidiMax) @@
    ("particleColorHue" :> 20000 * MidiMax) @@
    ("particleOpacity" :> 80 * MidiMax) @@
    ("particleEmissionRate" :> 5000 * MidiMax) @@
    ("cameraFOV" :> 7500 * MidiMax) @@
    ("cameraPositionX" :> 0 * MidiMax) @@
    ("cameraPositionY" :> 0 * MidiMax) @@
    ("cameraPositionZ" :> 3000 * MidiMax) @@
    ("cameraRotationSpeed" :> 0 * MidiMax) @@
    ("cameraShake" :> 0 * MidiMax) @@
    ("bgColorHue" :> 22000 * MidiMax) @@
    ("bgBrightness" :> 10 * MidiMax) @@
    ("fogDensity" :> 0 * MidiMax) @@
    ("fogColorHue" :> 20000 * MidiMax) @@
    ("bassToParticleSize" :> 0 * MidiMax) @@
    ("midToColorShift" :> 0 * MidiMax) @@
    ("trebleToBloom" :> 0 * MidiMax) @@
    ("kickToFlash" :> 0 * MidiMax) @@
    ("overallToScale" :> 0 * MidiMax) @@
    ("audioSmoothing" :> 80 * MidiMax) @@
    ("beatSensitivity" :> 100 * MidiMax) @@
    ("globalAudioIntensity" :> 100 * MidiMax)

\* String.prototype.startsWith
startsWith(s, prefix) ==
    Len(s) >= Len(prefix) /\ SubSeq(s, 1, Len(prefix)) = prefix

\* s.split('.')[1] of a string with a dot in it: what stands between the
\* first dot and the next one, or the end.
splitSecond(s) ==
    LET dots  == {i \in 1..Len(s) : SubSeq(s, i, i) = "."}
        first == CHOOSE i \in dots : \A j \in dots : i <= j
        later == dots \ {first}
        next  == IF later = {}
                 THEN Len(s) + 1
                 ELSE CHOOSE i \in later : \A j \in later : i <= j
    IN  SubSeq(s, first + 1, next - 1)

\* toUpperCase() of one character.
UpperCase ==
    ("a" :> "A") @@ ("b" :> "B") @@ ("c" :> "C") @@ ("d" :> "D") @@ ("e" :> "E") @@ ("f" :> "F") @@
    ("g" :> "G") @@ ("h" :> "H") @@ ("i" :> "I") @@ ("j" :> "J") @@ ("k" :> "K") @@ ("l" :> "L") @@
    ("m" :> "M") @@ ("n" :> "N") @@ ("o" :> "O") @@ ("p" :> "P") @@ ("q" :> "Q") @@ ("r" :> "R") @@
    ("s" :> "S") @@ ("t" :> "T") @@ ("u" :> "U") @@ ("v" :> "V") @@ ("w" :> "W") @@ ("x" :> "X") @@
    ("y" :> "Y") @@ ("z" :> "Z")

toUpperCase(ch) == IF ch \in DOMAIN UpperCase THEN UpperCase[ch] ELSE ch

\* prop.charAt(0).toUpperCase() + prop.slice(1)
capitalize(prop) == toUpperCase(SubSeq(prop, 1, 1)) \o SubSeq(prop, 2, Len(prop))

\* The field of this.params handleMIDIValueChange writes for a target, as a
\* set: empty when no branch takes the target.
paramField(target) ==
    LET prop == splitSecond(target)
    IN  IF startsWith(target, "video.") THEN {"video" \o capitalize(prop)}
        ELSE IF startsWith(target, "particles.") THEN {"particle" \o capitalize(prop)}
        ELSE IF startsWith(target, "camera.") THEN {"camera" \o capitalize(prop)}
        ELSE IF startsWith(target, "audioMod.") THEN {prop}
        ELSE {}

\* handleMIDIValueChange(data), as the new this.params.
handleMIDIValueChange(P, data) ==
    LET field == paramField(data.mapping.target)
    IN  IF field = {} THEN P ELSE MapSet(P, CHOOSE f \in field : TRUE, data.value)

\* StateManager.  Its methods are functions from the manager's state S (the
\* history, the index and the store) to the state they leave and, where
\* they return one, the snapshot returned: {} for null.

storageKey == "video-synth-sequencer-state"
presetPrefix == "vss-preset-"
maxHistorySize == 10

StateManagerState ==
    [history |-> stateHistory, currentHistoryIndex |-> currentHistoryIndex,
     localStorage |-> localStorage]

\* JSON.parse(JSON.stringify(state)): a copy with the same fields.  The
\* snapshots here hold numbers, which JSON gives back as they are.
JSONClone(state) == [f \in DOMAIN state |-> state[f]]

\* addToHistory that keeps the states after the current index.
addToHistory_KeepRedo(S, state) ==
    LET pushed == Append(S.history, JSONClone(state))
    IN  IF Len(pushed) > maxHistorySize
        THEN [S EXCEPT !.history = Tail(pushed)]
        ELSE [S EXCEPT !.history = pushed, !.currentHistoryIndex = @ + 1]

\* addToHistory(state)
addToHistory(S, state) ==
    LET sliced == SubSeq(S.history, 1, S.currentHistoryIndex + 1)
        pushed == Append(sliced, JSONClone(state))
    IN  IF Len(pushed) > maxHistorySize
        THEN [S EXCEPT !.history = Tail(pushed)]
        ELSE [S EXCEPT !.history = pushed, !.currentHistoryIndex = @ + 1]

\* saveState(state)
saveState(S, state) ==
    addToHistory([S EXCEPT !.localStorage = MapSet(@, storageKey, JSONClone(state))], state)

\* undo()
undo(S) ==
    IF S.currentHistoryIndex > 0
    THEN [S |-> [S EXCEPT !.currentHistoryIndex = @ - 1],
          result |-> {JSONClone(S.history[S.currentHistoryIndex])}]
    ELSE [S |-> S, result |-> {}]

\* redo()
redo(S) ==
    IF S.currentHistoryIndex < Len(S.history) - 1
    THEN [S |-> [S EXCEPT !.currentHistoryIndex = @ + 1],
          result |-> {JSONClone(S.history[S.currentHistoryIndex + 2])}]
    ELSE [S |-> S, result |-> {}]

\* savePreset(name, state); time is Date.now().
savePreset(S, name, state, time) ==
    [S EXCEPT !.localStorage =
        MapSet(@, presetPrefix \o name,
               [name |-> name, timestamp |-> time, state |-> JSONClone(state)])]

\* loadPreset(name), as the snapshot returned.
loadPreset(S, name) ==
    IF (presetPrefix \o name) \notin DOMAIN S.localStorage
    THEN {}
    ELSE {S.localStorage[presetPrefix \o name].state}

\* deletePreset(name)
deletePreset(S, name) ==
    [S EXCEPT !.localStorage = MapDelete(@, presetPrefix \o name)]

\* The name of a quick slot: `quick-${slot}`.
quickName(slot) == "quick-" \o DecimalKeys[slot]

\* saveQuickPreset(slot, state): refused for a slot outside 1..9.
saveQuickPreset(S, slot, state, time) ==
    IF slot < 1 \/ slot > 9
    THEN S
    ELSE savePreset(S, quickName(slot), state, time)

\* loadQuickPreset(slot), as the snapshot returned.
loadQuickPreset(S, slot) ==
    IF slot < 1 \/ slot > 9
    THEN {}
    ELSE loadPreset(S, quickName(slot))

\* new VideoSynthSequencer(), new StateManager()
AppInit ==
    /\ params = initializeParameters
    /\ stateHistory = <<>>
    /\ currentHistoryIndex = -1
    /\ saveCount = 0

----------------------------------------------------------------------------
(* SpecScale: one CC message, drawn from every controller number 34..99   *)
(* and every 7-bit value, is handed to a fresh MIDIMapper.                 *)

ProbeCCs == (CCMin - 1)..(CCMax + 1)
RawValues == 0..MidiMax

ScaleInit ==
    /\ MapperInit
    /\ LearnInit
    /\ ControllerInit
    /\ VideoInit
    /\ BeatInit
    /\ PeakInit
    /\ EngineInit
    /\ AppInit
    /\ EnvInit
    /\ probe \in [cc : ProbeCCs, value : RawValues]
    /\ call = NoCall

ScaleHandleCC ==
    /\ handleCC(probe.cc, probe.value)
    /\ call' = Call("handleCC", probe.cc, probe.value)
    /\ UNCHANGED <<now, probe>>
    /\ UNCHANGED videoVars
    /\ UNCHANGED quietVars
    /\ ccEvents' = <<>>
    /\ UNCHANGED learnVars

ScaleNext == ScaleHandleCC

SpecScale == ScaleInit /\ [][ScaleNext]_vars

\* C1: for every CC c in 35..98 and raw value v in 0..127, handleCC(c, v)
\* stores exactly min_c + (v/127)*(max_c - min_c) as c's active value;
\* v = 0 stores min_c and v = 127 stores max_c.  (Values are numerators
\* over 100*127 and the table is in hundredths, so the stored number s
\* denotes s/12700, min_c is 127*min and max_c is 127*max.)
C1_ScalingExact ==
    (call.op = "handleCC" /\ call.a \in CCMin..CCMax) =>
        LET row == MappingRows[call.a - CCMin + 1]
            v   == call.b
        IN  /\ call.a \in DOMAIN activeValues
            /\ activeValues[call.a] = (127 * row.min) + v * (row.max - row.min)
            /\ (v = 0 => activeValues[call.a] = 127 * row.min)
            /\ (v = 127 => activeValues[call.a] = 127 * row.max)

C1_Witness ==
    /\ call.op = "handleCC"
    /\ call.a = 47
    /\ call.b = 127
    /\ activeValues[47] = 127 * 2000

----------------------------------------------------------------------------
(* The clock, shared by SpecMapper and SpecLearn. *)

MaxTicks == 2           \* clock ticks in one run
TickMs == 10000         \* length of a clock tick

Tick ==
    /\ now < MaxTicks * TickMs
    /\ now' = now + TickMs
    /\ UNCHANGED mapperVars
    /\ UNCHANGED learnVars
    /\ UNCHANGED <<probe, call>>
    /\ UNCHANGED videoVars
    /\ UNCHANGED quietVars
    /\ ccEvents' = <<>>

----------------------------------------------------------------------------
(* SpecMapper: handleCC called directly, with controller numbers on both   *)
(* sides of each end of the range, while the clock advances.               *)

MapperCCs == {34, 35, 98, 99}
MapperValues == {0, 127}

MapperSpecInit ==
    /\ MapperInit
    /\ LearnInit
    /\ ControllerInit
    /\ VideoInit
    /\ BeatInit
    /\ PeakInit
    /\ EngineInit
    /\ AppInit
    /\ EnvInit
    /\ probe = [cc |-> 0, value |-> 0]
    /\ call = NoCall

CallHandleCC(cc, value) ==
    /\ handleCC(cc, value)
    /\ call' = Call("handleCC", cc, value)
    /\ UNCHANGED learnVars
    /\ UNCHANGED <<now, probe>>
    /\ UNCHANGED videoVars
    /\ UNCHANGED quietVars
    /\ ccEvents' = <<>>

MapperNext ==
    \/ \E cc \in MapperCCs, value \in MapperValues : CallHandleCC(cc, value)
    \/ Tick

SpecMapper == MapperSpecInit /\ [][MapperNext]_vars


\* The value the table assigns to raw value v on controller t:
\* min_t + (v/127)*(max_t - min_t), as a numerator over 100*127.
TableValue(t, v) ==
    LET row == MappingRows[t - 34] IN (127 * row.min) + v * (row.max - row.min)

\* C9: when the value-change listener runs for CC c the table already
\* holds the new scaled value (getValue(c) read inside the listener is the
\* notified value), and an accepted handleCC call notifies exactly once.
C9_CommitBeforeNotify ==
    /\ \A i \in 1..Len(notified) : notified[i].seen = {notified[i].value}
    /\ (call.op = "handleCC" /\ call.a \in 35..98) =>
          /\ Len(notified) = 1
          /\ notified[1].cc = call.a
          /\ notified[1].midiValue = call.b
          /\ notified[1].value = TableValue(call.a, call.b)

\* An accepted call that overwrote an earlier value of the same CC.
C9_Witness ==
    /\ call = Call("handleCC", 35, 127)
    /\ Len(notified) = 1
    /\ notified[1].seen = {127 * 400}
    /\ now > 0
    /\ lastUpdateTime[35] = now

\* C10: handleCC(cc, v) with cc outside [35,98] (34 and 99 are the probes)
\* leaves the active values and the last-update times as they were and
\* does not invoke the value-change listener.
C10_OutOfRangeNoOp ==
    [][\A cc \in MapperCCs, value \in MapperValues :
          (CallHandleCC(cc, value) /\ (cc < 35 \/ cc > 98)) =>
              /\ activeValues' = activeValues
              /\ lastUpdateTime' = lastUpdateTime
              /\ notified' = <<>>]_vars

\* handleCC(99, v) has run on a mapper that holds values.
C10_Witness ==
    /\ call = Call("handleCC", 99, 127)
    /\ DOMAIN activeValues = {35, 98}
    /\ DOMAIN lastUpdateTime = {35, 98}
    /\ now > lastUpdateTime[98]

----------------------------------------------------------------------------
(* SpecLearn: controller, learner and mapper together, driven by MIDI      *)
(* messages, by calls of the learner's public methods, by the learn timer  *)
(* and by the clock.                                                       *)

MaxTimers == 2          \* startLearning calls in one run

MsgStatus == {176}               \* control change, channel 0
MidiCCs == {34, 50}
MidiValues == {0, 127}
LearnTargets == {40, 20}        \* 20 has no mapping
ParameterNames == {"X"}

LearnSpecInit ==
    /\ MapperInit
    /\ LearnInit
    /\ ControllerInit
    /\ VideoInit
    /\ BeatInit
    /\ PeakInit
    /\ EngineInit
    /\ AppInit
    /\ EnvInit
    /\ probe = [cc |-> 0, value |-> 0]
    /\ call = NoCall

\* A MIDI message arrives at the controller.
MidiMessage(status, data1, data2) ==
    /\ handleMIDIMessage(status, data1, data2)
    /\ call' = Call(IF status - (status % 16) = StatusControlChange
                    THEN "midiCC" ELSE "midiOther", data1, data2)
    /\ UNCHANGED <<now, probe>>
    /\ UNCHANGED videoVars
    /\ UNCHANGED quietVars

CallProcessCC(cc, value) ==
    /\ processCC(cc, value)
    /\ call' = Call("processCC", cc, value)
    /\ UNCHANGED learnVars
    /\ UNCHANGED <<now, probe>>
    /\ UNCHANGED videoVars
    /\ UNCHANGED quietVars
    /\ ccEvents' = <<>>

CallStartLearning(targetCC, parameterName) ==
    /\ timerSeq < MaxTimers
    /\ SetLearnState(startLearning(Entering, targetCC, parameterName))
    /\ call' = Call("startLearning", targetCC, 0)
    /\ UNCHANGED mapperRest
    /\ UNCHANGED <<now, probe>>
    /\ UNCHANGED videoVars
    /\ UNCHANGED quietVars
    /\ ccEvents' = <<>>

CallCancelLearning ==
    /\ SetLearnState(cancelLearning(Entering))
    /\ call' = Call("cancelLearning", 0, 0)
    /\ UNCHANGED mapperRest
    /\ UNCHANGED <<now, probe>>
    /\ UNCHANGED videoVars
    /\ UNCHANGED quietVars
    /\ ccEvents' = <<>>

CallHandleLearnCC(cc) ==
    /\ SetLearnState(handleLearnCC(Entering, cc))
    /\ call' = Call("handleLearnCC", cc, 0)
    /\ UNCHANGED mapperRest
    /\ UNCHANGED <<now, probe>>
    /\ UNCHANGED videoVars
    /\ UNCHANGED quietVars
    /\ ccEvents' = <<>>

\* A setTimeout timer that is due runs its callback; the timer is spent.
TimerFire(tm) ==
    /\ tm \in timers
    /\ now >= tm.due
    /\ SetLearnState(handleLearnTimeout([Entering EXCEPT !.timers = @ \ {tm}]))
    /\ call' = Call("timeout", tm.id, 0)
    /\ UNCHANGED mapperRest
    /\ UNCHANGED <<now, probe>>
    /\ UNCHANGED videoVars
    /\ UNCHANGED quietVars
    /\ ccEvents' = <<>>

LearnNext ==
    \/ \E status \in MsgStatus, data1 \in MidiCCs, data2 \in MidiValues :
          MidiMessage(status, data1, data2)
    \/ \E cc \in MidiCCs, value \in MidiValues : CallProcessCC(cc, value)
    \/ \E targetCC \in LearnTargets, parameterName \in ParameterNames :
          CallStartLearning(targetCC, parameterName)
    \/ CallCancelLearning
    \/ \E cc \in MidiCCs : CallHandleLearnCC(cc)
    \/ \E tm \in timers : TimerFire(tm)
    \/ Tick

SpecLearn == LearnSpecInit /\ [][LearnNext]_vars

\* A CC number c reaches the learner: through the controller, whose listener
\* is the learner's temporary one, or by a direct handleLearnCC call.
LearnDelivery(c) ==
    \/ /\ onCCCallback = "learn"
       /\ \E v \in MidiValues : MidiMessage(StatusControlChange, c, v)
    \/ CallHandleLearnCC(c)

\* C2: learn round-trip.  After startLearning(t, name) with t in 35..98, an
\* in-range CC c delivered while Listening leaves a route c -> t; for every
\* raw value v processCC(c, v) then stores for CC t the table value of
\* (t, v), which is what processCC(t, v) stores when t has no route (t's max
\* for v = 127); a CC without a route is forwarded under its own number.
C2_LearnRoundTrip ==
    [][/\ \A c \in MidiCCs :
            (isLearning /\ c \in 35..98 /\ LearnDelivery(c)) =>
                \A tg \in learningTarget :
                    tg.cc \in 35..98 =>
                        /\ c \in DOMAIN customMappings'
                        /\ customMappings'[c].originalCC = tg.cc
       /\ \A c \in MidiCCs, v \in MidiValues :
            CallProcessCC(c, v) =>
                LET t == IF c \in DOMAIN customMappings
                         THEN customMappings[c].originalCC ELSE c
                IN  IF t \in 35..98
                    THEN /\ activeValues' = MapSet(activeValues, t, TableValue(t, v))
                         /\ (v = 127 => activeValues'[t] = 127 * MappingRows[t - 34].max)
                         /\ Len(notified') = 1 /\ notified'[1].cc = t
                    ELSE activeValues' = activeValues]_vars

\* processCC(50, 127) has run with the learned route 50 -> 40 in place: CC
\* 40 holds its max and CC 50 holds nothing.
C2_Witness ==
    /\ call = Call("processCC", 50, 127)
    /\ 50 \in DOMAIN customMappings
    /\ customMappings[50].originalCC = 40
    /\ 40 \notin DOMAIN customMappings
    /\ activeValues = (40 :> 127 * 200)

\* C3: at most one learn session is active.  startLearning while Listening
\* invokes the cancel callback of the running session, clears its timer and
\* then starts the new session (cancel precedes start); a CC received
\* afterwards is recorded against the new target only.
C3_SingleSession ==
    /\ [](/\ Cardinality(timers) <= 1
          /\ Cardinality(learningTarget) <= 1
          /\ (isLearning <=> learningTarget # {})
          /\ (isLearning => \E tm \in timers : learnTimeout = {tm.id})
          /\ (~isLearning => timers = {} /\ learnTimeout = {}))
    /\ [][/\ \A t \in LearnTargets, n \in ParameterNames :
               (isLearning /\ CallStartLearning(t, n)) =>
                   /\ learnEvents' = <<LearnEvent("cancel", 0, 0, ""),
                                       LearnEvent("start", 0, t, n)>>
                   /\ timers' \cap timers = {}
                   /\ Cardinality(timers') = 1
                   /\ isLearning'
                   /\ learningTarget' = {[cc |-> t, name |-> n]}
          /\ \A c \in MidiCCs :
               (isLearning /\ c \in 35..98 /\ LearnDelivery(c)) =>
                   \A tg \in learningTarget :
                       /\ ~isLearning'
                       /\ IF tg.cc \in 35..98
                          THEN customMappings' =
                                  MapSet(customMappings, c,
                                         [originalCC |-> tg.cc, mapping |-> MappingRows[tg.cc - 34]])
                          ELSE customMappings' = customMappings]_vars

\* A second startLearning replaced a running session.
C3_Witness ==
    /\ call = Call("startLearning", 40, 0)
    /\ learnEvents = <<LearnEvent("cancel", 0, 0, ""), LearnEvent("start", 0, 40, "X")>>
    /\ isLearning
    /\ timerSeq = 2
    /\ timers = {[id |-> 2, due |-> now + learnTimeoutDuration]}

\* C4: learn timeout.  startLearning arms a timer due 10000 ms later; when
\* it fires with no CC delivered, the timeout callback is invoked once, the
\* learner is Idle (isLearning false, no target), no timer is left to fire
\* again and the route table is unchanged.
C4_LearnTimeout ==
    /\ [](isLearning => \E tm \in timers : learnTimeout = {tm.id})
    /\ [][/\ \A t \in LearnTargets, n \in ParameterNames :
               CallStartLearning(t, n) =>
                   timers' = {[id |-> timerSeq', due |-> now + 10000]}
          /\ \A tm \in timers :
               TimerFire(tm) =>
                   /\ now >= tm.due
                   /\ learnEvents' = <<LearnEvent("timeout", 0, 0, "")>>
                   /\ ~isLearning'
                   /\ learningTarget' = {}
                   /\ learnTimeout' = {}
                   /\ timers' = {}
                   /\ customMappings' = customMappings
                   /\ localStorage' = localStorage]_vars

\* The timer of a session started at time 0 has fired.
C4_Witness ==
    /\ call = Call("timeout", 1, 0)
    /\ learnEvents = <<LearnEvent("timeout", 0, 0, "")>>
    /\ ~isLearning
    /\ learningTarget = {}
    /\ customMappings = EmptyMap
    /\ now >= learnTimeoutDuration

TypeOKLearn ==
    /\ isLearning \in BOOLEAN
    /\ Cardinality(learningTarget) <= 1
    /\ Cardinality(learnTimeout) <= 1
    /\ onCCCallback \in {"null", "app", "learn"}

\* The step just taken handed a CC number to handleLearnCC: by a direct
\* call, or through the controller while the learner's listener was set.
ReachedLearner ==
    \/ call'.op = "handleLearnCC"
    \/ call'.op = "midiCC" /\ onCCCallback = "learn"

\* C26: while Listening, a received CC number outside 35..98 creates no
\* route, saves nothing, invokes no callback and leaves the session
\* Listening with the same target, the same pending timer and the
\* learner's listener in place.
C26_OutOfRangeKeepsListening ==
    [][(isLearning /\ ReachedLearner /\ (call'.a < 35 \/ call'.a > 98)) =>
          /\ customMappings' = customMappings
          /\ localStorage' = localStorage
          /\ learnEvents' \in {<<>>, learnEvents}
          /\ \A i \in 1..Len(learnEvents') : learnEvents'[i].cb # "success"
          /\ isLearning'
          /\ learningTarget' = learningTarget
          /\ learnTimeout' = learnTimeout
          /\ timers' = timers
          /\ timers' # {}
          /\ onCCCallback' = onCCCallback]_vars

\* handleLearnCC(34) has returned in a session that is still Listening.
C26_Witness ==
    /\ call = Call("handleLearnCC", 34, 0)
    /\ isLearning
    /\ learningTarget = {[cc |-> 40, name |-> "X"]}
    /\ \E tm \in timers : learnTimeout = {tm.id}
    /\ onCCCallback = "learn"
    /\ customMappings = EmptyMap

\* C31: a pending learn timer always belongs to the session that is
\* Listening now, the one armed last.  The timeout runs only while the
\* learner is Listening, only for that session's own timer and not before
\* the deadline the session armed it with, and the timeout callback is
\* invoked by no other step.
C31_TimeoutOnlyForOwnSession ==
    /\ [](\A tm \in timers :
             isLearning /\ learnTimeout = {tm.id} /\ tm.id = timerSeq)
    /\ [][(call'.op = "timeout" /\ now' = now) =>
              /\ isLearning
              /\ learnTimeout = {call'.a}
              /\ call'.a = timerSeq
              /\ \E tm \in timers : tm.id = call'.a /\ now >= tm.due
              /\ learnEvents' = <<LearnEvent("timeout", 0, 0, "")>>]_vars
    /\ [][(/\ learnEvents' # learnEvents
           /\ \E i \in 1..Len(learnEvents') : learnEvents'[i].cb = "timeout")
              => isLearning /\ call'.op = "timeout"]_vars

\* The timer of a second session has fired, the first one having ended
\* before it started or having been replaced by it.
C31_Witness ==
    /\ call.op = "timeout"
    /\ call.a = 2
    /\ learnEvents = <<LearnEvent("timeout", 0, 0, "")>>
    /\ ~isLearning
    /\ timers = {}

\* C28: a learn session never leaves the controller without its CC
\* listener: whenever no session is running the controller's listener is
\* the one main.js registered, and an in-range CC message arriving then
\* stores the scaled value for its controller number.
C28_ListenerSurvivesLearning ==
    /\ [](~isLearning => onCCCallback = "app")
    /\ [][(~isLearning /\ call'.op = "midiCC" /\ call'.a \in 35..98) =>
              activeValues' = MapSet(activeValues, call'.a,
                                     TableValue(call'.a, call'.b))]_vars

\* C29: once a route c -> t is in the table and no session is running, a
\* controller message on CC c stores for t the value scaled by t's range
\* and stores nothing for c.
C29_LearnedRouteDrivesTarget ==
    [][(/\ ~isLearning
        /\ call'.op = "midiCC"
        /\ call'.a \in DOMAIN customMappings) =>
          LET t == customMappings[call'.a].originalCC
          IN  activeValues' = MapSet(activeValues, t, TableValue(t, call'.b))]_vars

\* The callbacks that end a session, among those a step invoked.
EndEvents(events) ==
    SelectSeq(events, LAMBDA e : e.cb \in {"success", "cancel", "timeout"})

\* C30: a step that ends a session (the learner leaves Listening, or a new
\* startLearning replaces the session) invokes exactly one of the success,
\* cancel and timeout callbacks, once; the route table changes on a step
\* exactly when the success callback is invoked, and then it holds the
\* route from the learned CC to the target.
C30_SessionEndsOnce ==
    [][/\ (isLearning /\ (~isLearning' \/ call'.op = "startLearning")) =>
             Len(EndEvents(learnEvents')) = 1
       /\ (learnEvents' # learnEvents) =>
             \A i \in 1..Len(learnEvents') :
                 learnEvents'[i].cb = "success" =>
                     /\ learnEvents'[i].learnedCC \in DOMAIN customMappings'
                     /\ customMappings'[learnEvents'[i].learnedCC].originalCC =
                            learnEvents'[i].targetCC
       /\ (customMappings' # customMappings) =>
             \E i \in 1..Len(learnEvents') : learnEvents'[i].cb = "success"]_vars

----------------------------------------------------------------------------
(* SpecVideo: the playlist, driven by uploads whose metadata loads finish  *)
(* in any order, by the playback controls, by removal and reordering, and  *)
(* by the media elements ('ended', play() settling).                       *)

MaxFiles == 3           \* addVideo calls in one run

EntryIds == 1..MaxFiles
Indexes == (-1)..MaxFiles

VideoSpecInit ==
    /\ MapperInit
    /\ LearnInit
    /\ ControllerInit
    /\ VideoInit
    /\ BeatInit
    /\ PeakInit
    /\ EngineInit
    /\ AppInit
    /\ EnvInit
    /\ probe = [cc |-> 0, value |-> 0]
    /\ call = NoCall

VideoFrame ==
    /\ UNCHANGED mapperVars
    /\ UNCHANGED learnVars
    /\ UNCHANGED <<now, probe>>
    /\ UNCHANGED quietVars
    /\ ccEvents' = <<>>

\* addVideo(file) up to its await: a file of an unsupported type is refused,
\* any other waits for its metadata.
AddVideo(supported) ==
    /\ addCalls < MaxFiles
    /\ addCalls' = addCalls + 1
    /\ loading' = IF supported THEN loading \cup {addCalls + 1} ELSE loading
    /\ call' = Call("addVideo", addCalls + 1, IF supported THEN 1 ELSE 0)
    /\ videoErrors' = IF supported THEN <<>> ELSE <<VideoError(addCalls + 1, "format")>>
    /\ UNCHANGED <<videos, currentIndex, isPlaying, elementPaused, playPending, playbackRate>>
    /\ VideoFrame

\* 'loadedmetadata' of the element made by call k.
MetadataLoaded(k) ==
    /\ k \in loading
    /\ loading' = loading \ {k}
    /\ SetVideoState(addVideoLoaded(VideoState, k))
    /\ call' = Call("loadedmetadata", k, 0)
    /\ videoErrors' = <<>>
    /\ UNCHANGED addCalls
    /\ VideoFrame

\* 'error' of the element made by call k: addVideo rejects.
MetadataError(k) ==
    /\ k \in loading
    /\ loading' = loading \ {k}
    /\ call' = Call("loaderror", k, 0)
    /\ videoErrors' = <<VideoError(k, "metadata")>>
    /\ UNCHANGED <<videos, currentIndex, isPlaying, elementPaused, playPending, addCalls,
                   playbackRate>>
    /\ VideoFrame

VideoCall(V, op, a, b) ==
    /\ SetVideoState(V)
    /\ call' = Call(op, a, b)
    /\ videoErrors' = IF op = "playRejected" THEN <<VideoError(a, "play")>> ELSE <<>>
    /\ UNCHANGED <<loading, addCalls>>
    /\ VideoFrame

CallRemoveVideo(id) == VideoCall(removeVideo(VideoState, id), "removeVideo", id, 0)

CallReorderVideo(id, newIndex) ==
    VideoCall(reorderVideo(VideoState, id, newIndex), "reorderVideo", id, newIndex)

CallTogglePlayPause == VideoCall(togglePlayPause(VideoState), "togglePlayPause", 0, 0)

CallNextVideo == VideoCall(nextVideo(VideoState), "nextVideo", 0, 0)

CallPreviousVideo == VideoCall(previousVideo(VideoState), "previousVideo", 0, 0)

CallJumpToVideo(index) == VideoCall(jumpToVideo(VideoState, index), "jumpToVideo", index, 0)

CallDispose == VideoCall(dispose(VideoState), "dispose", 0, 0)

\* A playing element reaches its end: the element pauses itself and fires
\* 'ended', whose listener is handleVideoEnded.
Ended(id) ==
    /\ id \in DOMAIN elementPaused
    /\ ~elementPaused[id]
    /\ id \notin playPending
    /\ VideoCall(handleVideoEnded([VideoState EXCEPT !.elementPaused[id] = TRUE]),
                 "ended", id, 0)

\* element.play() of entry id resolves; play() continues.
PlayResolved(id) ==
    /\ id \in playPending
    /\ VideoCall(playResolved(VideoState, id), "playResolved", id, 0)

\* element.play() of entry id is rejected; play() reports the error.
PlayRejected(id) ==
    /\ id \in playPending
    /\ VideoCall(playRejected(VideoState, id), "playRejected", id, 0)

VideoNext ==
    \/ \E supported \in BOOLEAN : AddVideo(supported)
    \/ \E k \in EntryIds : MetadataLoaded(k)
    \/ \E k \in EntryIds : MetadataError(k)
    \/ \E id \in EntryIds : CallRemoveVideo(id)
    \/ \E id \in EntryIds, newIndex \in Indexes : CallReorderVideo(id, newIndex)
    \/ CallTogglePlayPause
    \/ CallNextVideo
    \/ CallPreviousVideo
    \/ \E index \in Indexes : CallJumpToVideo(index)
    \/ CallDispose
    \/ \E id \in EntryIds : Ended(id)
    \/ \E id \in EntryIds : PlayResolved(id)
    \/ \E id \in EntryIds : PlayRejected(id)

SpecVideo == VideoSpecInit /\ [][VideoNext]_vars

\* The playlist's shape: distinct entries, each with an element, and no
\* element but the current entry's is unpaused.
TypeOKVideo ==
    /\ \A i, j \in 1..Len(videos) : videos[i] = videos[j] => i = j
    /\ DOMAIN elementPaused = {videos[i] : i \in 1..Len(videos)}
    /\ playPending \subseteq DOMAIN elementPaused
    /\ \A id \in DOMAIN elementPaused :
          ~elementPaused[id] => getCurrentVideo(VideoState) = {id}
    /\ (Len(videos) > 0 => currentIndex \in 0..(Len(videos) - 1))

\* The entries of a playlist, as a set.
Entries(vs) == {vs[i] : i \in 1..Len(vs)}

\* The 0-based position of entry id in playlist vs.
PositionOf(vs, id) == (CHOOSE i \in 1..Len(vs) : vs[i] = id) - 1

\* C5: auto-advance.  When the current entry of an n-entry playlist at
\* index i signals 'ended', the current index becomes (i+1) mod n (n-1 wraps
\* to 0, never out of bounds) and playback of the new current entry is
\* started, so the playlist does not stay stopped at its end.
C5_AutoAdvance ==
    [][\A id \in EntryIds :
          (Ended(id) /\ getCurrentVideo(VideoState) = {id}) =>
              LET n == Len(videos)
                  i == currentIndex
              IN  /\ n >= 1
                  /\ videos' = videos
                  /\ currentIndex' = (i + 1) % n
                  /\ (i = n - 1 => currentIndex' = 0)
                  /\ currentIndex' \in 0..(n - 1)
                  /\ ~elementPaused'[videos[currentIndex' + 1]]
                  /\ playPending' = {videos[currentIndex' + 1]}]_vars

\* The last entry of a three-entry playlist has ended: the index is back at
\* 0 and the first entry has been asked to play.
C5_Witness ==
    /\ call.op = "ended"
    /\ Len(videos) = 3
    /\ call.a = videos[3]
    /\ currentIndex = 0
    /\ playPending = {videos[1]}

\* C6: removeVideo(id) keeps the current position consistent.  Removing an
\* entry before the current index lowers the index by one, so the same entry
\* stays current; removing one after it leaves the index alone; removing
\* the current entry while entries remain clamps the index into
\* 0..length-1 and starts playback of the entry now at that index.
C6_RemoveKeepsCurrent ==
    [][\A id \in EntryIds :
          (CallRemoveVideo(id) /\ id \in Entries(videos)) =>
              LET index == PositionOf(videos, id)
              IN  /\ Entries(videos') = Entries(videos) \ {id}
                  /\ Len(videos') = Len(videos) - 1
                  /\ (index < currentIndex =>
                         /\ currentIndex' = currentIndex - 1
                         /\ videos'[currentIndex' + 1] = videos[currentIndex + 1]
                         /\ UNCHANGED <<isPlaying, playPending>>)
                  /\ (index > currentIndex =>
                         /\ currentIndex' = currentIndex
                         /\ videos'[currentIndex' + 1] = videos[currentIndex + 1]
                         /\ UNCHANGED <<isPlaying, playPending>>)
                  /\ ((index = currentIndex /\ Len(videos') > 0) =>
                         /\ currentIndex' \in 0..(Len(videos') - 1)
                         /\ currentIndex' = Min(currentIndex, Len(videos') - 1)
                         /\ ~elementPaused'[videos'[currentIndex' + 1]]
                         /\ playPending' = {videos'[currentIndex' + 1]})]_vars

\* The current, last entry of a two-entry playlist was removed: the one
\* remaining entry is current and has been asked to play.
C6_Witness ==
    /\ call.op = "removeVideo"
    /\ Len(videos) = 1
    /\ call.a > videos[1]
    /\ call.a \notin Entries(videos)
    /\ currentIndex = 0
    /\ playPending = {videos[1]}

\* C7: for every valid reorderVideo(id, newIndex) the entry that was current
\* before the move is the entry at currentIndex after it, for every old
\* position, new position and current index; the set of entries is the same
\* and playback is not switched.
C7_ReorderKeepsCurrent ==
    [][\A id \in EntryIds, newIndex \in Indexes :
          (/\ CallReorderVideo(id, newIndex)
           /\ id \in Entries(videos)
           /\ newIndex >= 0 /\ newIndex < Len(videos)) =>
              /\ Entries(videos') = Entries(videos)
              /\ Len(videos') = Len(videos)
              /\ videos'[newIndex + 1] = id
              /\ currentIndex' \in 0..(Len(videos') - 1)
              /\ videos'[currentIndex' + 1] = videos[currentIndex + 1]
              /\ UNCHANGED <<isPlaying, elementPaused, playPending>>]_vars

\* An entry from before the current one was moved onto the current index
\* of a three-entry playlist; the index followed the current entry down.
C7_Witness ==
    /\ call.op = "reorderVideo"
    /\ call.b = 1
    /\ Len(videos) = 3
    /\ videos[2] = call.a
    /\ currentIndex = 0
    /\ ~elementPaused[videos[1]]
    /\ videos = <<2, 1, 3>>

\* C8: the playlist order is the order of the addVideo calls: each new entry
\* is appended at the end, behind the entries of all earlier calls, also
\* when several calls are in flight and their metadata loads finish in
\* another order.  (Entry ids are call numbers.)
C8_UploadOrder ==
    [][\A k \in EntryIds :
          MetadataLoaded(k) =>
              /\ videos' = Append(videos, k)
              /\ \A j \in Entries(videos) : j < k]_vars

\* C16: when removeVideo removes the last remaining entry the playlist is
\* Empty: isPlaying is never true while the playlist holds no entry.
C16_EmptyPlaylistNotPlaying ==
    Len(videos) = 0 => ~isPlaying

\* C33: currentIndex is within 0..length-1 while the playlist holds entries
\* and is 0 while it holds none.  previousVideo at index 0 moves to the
\* last entry, and jumpToVideo with an index outside 0..length-1 changes
\* nothing.
C33_CurrentIndexInRange ==
    /\ [](IF Len(videos) = 0
          THEN currentIndex = 0
          ELSE currentIndex \in 0..(Len(videos) - 1))
    /\ [][(call'.op = "previousVideo" /\ Len(videos) > 0 /\ currentIndex = 0) =>
              /\ currentIndex' = Len(videos) - 1
              /\ videos' = videos]_vars
    /\ [][(call'.op = "jumpToVideo" /\ (call'.a < 0 \/ call'.a >= Len(videos))) =>
              UNCHANGED <<videos, currentIndex, isPlaying, elementPaused, playPending>>]_vars

\* previousVideo has wrapped from the first entry to the last of a playlist
\* that holds two of the three files uploaded.
C33_Witness ==
    /\ call.op = "previousVideo"
    /\ Len(videos) = 2
    /\ currentIndex = 1
    /\ addCalls = 3
    /\ loading = {}

\* C36: togglePlayPause alternates between Playing and Paused.  When the
\* playlist is playing, or a play() of the current entry has been started
\* and has not completed yet, a toggle pauses: the element is paused,
\* isPlaying is false and no play() is left to complete.  Otherwise a
\* toggle starts a play() of the current entry.
C36_ToggleAlternates ==
    [][(call'.op = "togglePlayPause" /\ Len(videos) > 0) =>
          LET current == videos[currentIndex + 1]
          IN  IF isPlaying \/ current \in playPending
              THEN /\ ~isPlaying'
                   /\ elementPaused'[current]
                   /\ current \notin playPending'
              ELSE /\ ~elementPaused'[current]
                   /\ current \in playPending']_vars


----------------------------------------------------------------------------
(* SpecUpload: uploads of files of any type, whose metadata loads finish   *)
(* or fail in any order, next to the playback rate and the playback        *)
(* controls.                                                               *)

MimeTypes == {"video/mp4", "video/quicktime", "image/png", ""}
RateInputs == {10, 200}         \* setPlaybackRate(0.1), setPlaybackRate(2.0)

\* addVideo(file) up to its await, for a file of the given type: a type
\* that is not supported throws at once, into the catch block.
AddVideoFile(mimeType) ==
    /\ addCalls < MaxFiles
    /\ addCalls' = addCalls + 1
    /\ IF isSupportedFormat(mimeType)
       THEN /\ loading' = loading \cup {addCalls + 1}
            /\ videoErrors' = <<>>
       ELSE /\ loading' = loading
            /\ videoErrors' = <<VideoError(addCalls + 1, "format")>>
    /\ call' = Call("addVideo", addCalls + 1, mimeType)
    /\ UNCHANGED <<videos, currentIndex, isPlaying, elementPaused, playPending, playbackRate>>
    /\ VideoFrame

CallSetPlaybackRate(rate) ==
    VideoCall(setPlaybackRate(VideoState, rate), "setPlaybackRate", rate, 0)

UploadNext ==
    \/ \E mimeType \in MimeTypes : AddVideoFile(mimeType)
    \/ \E k \in EntryIds : MetadataLoaded(k)
    \/ \E k \in EntryIds : MetadataError(k)
    \/ \E rate \in RateInputs : CallSetPlaybackRate(rate)
    \/ CallTogglePlayPause
    \/ CallNextVideo
    \/ \E id \in EntryIds : PlayResolved(id)
    \/ \E id \in EntryIds : PlayRejected(id)

SpecUpload == VideoSpecInit /\ [][UploadNext]_vars

\* C27: an addVideo call that fails, at once for a file whose type is none
\* of video/mp4, video/webm and video/quicktime or later when the metadata
\* load fails, leaves the playlist, the current index, isPlaying, the
\* playback rate and the elements as they were; its error, and no other,
\* is handed to the error listener and thrown to the caller; the other
\* calls still waiting keep waiting, and a call whose metadata loads is
\* appended to the playlist whatever became of the others.
C27_FailedAddChangesNothing ==
    [][/\ (/\ call'.op = "addVideo"
           /\ call'.b \notin {"video/mp4", "video/webm", "video/quicktime"}) =>
             /\ UNCHANGED <<videos, currentIndex, isPlaying, playbackRate,
                            elementPaused, playPending, loading>>
             /\ videoErrors' = <<VideoError(call'.a, "format")>>
       /\ (call'.op = "loaderror") =>
             /\ UNCHANGED <<videos, currentIndex, isPlaying, playbackRate,
                            elementPaused, playPending>>
             /\ loading' = loading \ {call'.a}
             /\ videoErrors' = <<VideoError(call'.a, "metadata")>>
       /\ (call'.op = "loadedmetadata") =>
             /\ videos' = Append(videos, call'.a)
             /\ loading' = loading \ {call'.a}
             /\ videoErrors' = <<>>]_vars

\* The metadata load of the second call has failed while the first file
\* plays at rate 2.0 and a third call is still waiting.
C27_Witness ==
    /\ call.op = "loaderror"
    /\ call.a = 2
    /\ videoErrors = <<VideoError(2, "metadata")>>
    /\ videos = <<1>>
    /\ isPlaying
    /\ playbackRate = 200
    /\ loading = {3}

----------------------------------------------------------------------------
(* SpecController: the MIDIController alone with its environment: ports    *)
(* come and go, requestMIDIAccess settles later than initialize() is       *)
(* called, and messages arrive on the ports that carry the handler.        *)

MaxPending == 1         \* initialize() calls waiting at one time

PortIds == {"A", "B"}
PortTypes == {"input", "output"}
PortStates == {"connected", "disconnected"}
CtlStatus == {144, 176, 191, 192}     \* note on, CC channel 0, CC channel 15, program change
CtlCCs == {34, 35, 98, 99}
CtlValues == {127}
Listeners == {"null", "app"}

ControllerSpecInit ==
    /\ MapperInit
    /\ LearnInit
    /\ ControllerInit
    /\ VideoInit
    /\ BeatInit
    /\ PeakInit
    /\ EngineInit
    /\ AppInit
    /\ EnvInit
    /\ probe = [cc |-> 0, value |-> 0]
    /\ call = NoCall

\* What a controller step leaves alone besides the mapper and the learner.
ControllerFrame ==
    /\ UNCHANGED <<now, probe>>
    /\ UNCHANGED <<exported, exportedValues, beatVars, peakVars, engineVars, appVars>>
    /\ UNCHANGED videoVars

\* initialize() up to its await.
CallInitialize ==
    /\ initPending < MaxPending
    /\ initPending' = initPending + 1
    /\ disposed' = FALSE
    /\ ccEvents' = <<>>
    /\ wasActive' = {}
    /\ call' = Call("initialize", 0, 0)
    /\ UNCHANGED <<midiAccess, inputs, activeDevice, isEnabled, onmidimessage,
                   onstatechange, ports>>
    /\ UNCHANGED mapperVars
    /\ UNCHANGED learnVars
    /\ ControllerFrame

\* requestMIDIAccess resolves and initialize() runs on.
AccessGranted ==
    /\ initPending > 0
    /\ initPending' = initPending - 1
    /\ SetControllerState(initializeGranted(ControllerState, ports))
    /\ disposed' = FALSE
    /\ ccEvents' = <<>>
    /\ wasActive' = {}
    /\ call' = Call("granted", 0, 0)
    /\ UNCHANGED ports
    /\ UNCHANGED mapperVars
    /\ UNCHANGED learnVars
    /\ ControllerFrame

\* requestMIDIAccess rejects and initialize() runs its catch block.
AccessDenied ==
    /\ initPending > 0
    /\ initPending' = initPending - 1
    /\ SetControllerState(initializeFailed(ControllerState))
    /\ disposed' = FALSE
    /\ ccEvents' = <<>>
    /\ wasActive' = {}
    /\ call' = Call("denied", 0, 0)
    /\ UNCHANGED ports
    /\ UNCHANGED mapperVars
    /\ UNCHANGED learnVars
    /\ ControllerFrame

\* A port changes state (or, for "connected", reports it again, as it does
\* when it is opened).  The MIDIAccess object tells the handler it holds.
StateChange(port, type, state) ==
    /\ state = "disconnected" /\ type = "input" => port \in Range(ports)
    /\ ports' = IF type # "input" THEN ports
                ELSE IF state = "connected" THEN KeySet(ports, port)
                ELSE KeyDelete(ports, port)
    /\ IF onstatechange
       THEN SetControllerState(handleStateChange(ControllerState, port, type, state))
       ELSE SetControllerState(ControllerState)
    /\ ccEvents' = <<>>
    /\ wasActive' = activeDevice
    /\ call' = Call(state, port, type)
    /\ UNCHANGED <<initPending, disposed>>
    /\ UNCHANGED mapperVars
    /\ UNCHANGED learnVars
    /\ ControllerFrame

CallSetActiveDevice(deviceId) ==
    /\ SetControllerState(setActiveDevice(ControllerState, deviceId))
    /\ ccEvents' = <<>>
    /\ wasActive' = {}
    /\ call' = Call("setActiveDevice", deviceId, 0)
    /\ UNCHANGED <<ports, initPending, disposed>>
    /\ UNCHANGED mapperVars
    /\ UNCHANGED learnVars
    /\ ControllerFrame

CallDisconnect ==
    /\ SetControllerState(disconnect(ControllerState))
    /\ disposed' = TRUE
    /\ ccEvents' = <<>>
    /\ wasActive' = {}
    /\ call' = Call("disconnect", 0, 0)
    /\ UNCHANGED <<ports, initPending>>
    /\ UNCHANGED mapperVars
    /\ UNCHANGED learnVars
    /\ ControllerFrame

\* onCC(callback)
CallOnCC(callback) ==
    /\ onCCCallback' = callback
    /\ ccEvents' = <<>>
    /\ wasActive' = {}
    /\ call' = Call("onCC", callback, 0)
    /\ UNCHANGED <<isLearning, learningTarget, learnTimeout, tempCCHandler,
                   customMappings, learnEvents, timers, timerSeq, localStorage>>
    /\ UNCHANGED deviceVars
    /\ UNCHANGED mapperVars
    /\ ControllerFrame

\* A message arrives on a connected port that carries the handler.
MessageArrives(port, status, data1, data2) ==
    /\ port \in Range(ports)
    /\ port \in onmidimessage
    /\ handleMIDIMessage(status, data1, data2)
    /\ call' = Call("message", <<port, status>>, <<data1, data2>>)
    /\ UNCHANGED deviceVars
    /\ wasActive' = {}
    /\ ControllerFrame

ControllerNext ==
    \/ CallInitialize
    \/ AccessGranted
    \/ AccessDenied
    \/ \E port \in PortIds, type \in PortTypes, state \in PortStates :
          StateChange(port, type, state)
    \/ \E deviceId \in PortIds : CallSetActiveDevice(deviceId)
    \/ CallDisconnect
    \/ \E callback \in Listeners : CallOnCC(callback)
    \/ \E port \in PortIds, status \in CtlStatus, data1 \in CtlCCs, data2 \in CtlValues :
          MessageArrives(port, status, data1, data2)

SpecController == ControllerSpecInit /\ [][ControllerNext]_vars

TypeOKController ==
    /\ midiAccess \in {"null", "access"}
    /\ Range(inputs) \subseteq PortIds
    /\ Len(inputs) = Cardinality(Range(inputs))
    /\ activeDevice \subseteq PortIds /\ Cardinality(activeDevice) <= 1
    /\ isEnabled \in BOOLEAN
    /\ onmidimessage \subseteq PortIds
    /\ Len(ports) = Cardinality(Range(ports))

\* Whether a message is one the controller lets through.
Qualifies(status, data1) == status \in 176..191 /\ data1 \in 35..98

\* C11: for each message that arrives, the CC listener (when one is
\* registered) is invoked exactly once if the status byte is in 0xB0..0xBF
\* and the controller number in [35,98], with that number, value and
\* channel, and is not invoked at all for any other message.
C11_FilterAtIngestion ==
    [][call'.op = "message" =>
          LET status == call'.a[2]
              data1 == call'.b[1]
              data2 == call'.b[2]
          IN  ccEvents' = IF Qualifies(status, data1) /\ onCCCallback # "null"
                          THEN <<[cc |-> data1, value |-> data2,
                                  channel |-> status - 176]>>
                          ELSE <<>>]_vars

\* A control change on channel 15, for the last controller of the range,
\* reached the listener and the mapper took it.
C11_Witness ==
    /\ call = Call("message", <<"B", 191>>, <<98, 127>>)
    /\ ccEvents = <<[cc |-> 98, value |-> 127, channel |-> 15]>>
    /\ 98 \in DOMAIN activeValues

\* C19: once disconnect() has run, and until initialize() runs again, the
\* device set is empty, no device is active, isReady() is false and no CC
\* event reaches the listener, whatever messages and port notifications
\* arrive; and a second disconnect() changes nothing.
C19_DisconnectDisposes ==
    /\ [](disposed =>
             /\ inputs = <<>>
             /\ activeDevice = {}
             /\ ~isReady(ControllerState)
             /\ ccEvents = <<>>)
    /\ [][(disposed /\ CallDisconnect) => UNCHANGED <<deviceVars, onCCCallback>>]_vars

\* C20: the active device is null or one of the managed inputs.  When a
\* disconnected notification removes the active device, the active device
\* becomes one of the remaining inputs, or null if none remains; a
\* connected notification makes its port active only if none was active,
\* and otherwise leaves the active device as it was.
C20_ActiveDeviceManaged ==
    /\ [](activeDevice \subseteq Range(inputs))
    /\ [][(call'.op = "disconnected" /\ call'.b = "input" /\ onstatechange
           /\ activeDevice = {call'.a}) =>
              /\ call'.a \notin Range(inputs')
              /\ IF inputs' = <<>> THEN activeDevice' = {}
                 ELSE activeDevice' # {} /\ activeDevice' \subseteq Range(inputs')]_vars
    /\ [][(call'.op = "connected" /\ call'.b = "input" /\ onstatechange) =>
              /\ call'.a \in Range(inputs')
              /\ activeDevice' = IF activeDevice = {} THEN {call'.a} ELSE activeDevice]_vars

\* The active port A went away while B was managed too, and B took over.
C20_Witness ==
    /\ call = Call("disconnected", "A", "input")
    /\ wasActive = {"A"}
    /\ onstatechange
    /\ inputs = <<"B">>
    /\ activeDevice = {"B"}

----------------------------------------------------------------------------
(* SpecPersist: the mapper with its documents.  localStorage may hold any  *)
(* document when the mapper is constructed, and the constructor loads it.  *)

MaxEntries == 2         \* entries of an imported document

PersistCCs == {34, 35, 98, 99}
PersistValues == {127}
DocKeys == {"34", "35", "98", "99"}
DocValues == {7}

\* The documents handed to importMappings: each entry is null or an object
\* with a value.
ImportDocs ==
    UNION {[K -> {{}} \cup {{[value |-> v]} : v \in DocValues}] :
              K \in {J \in SUBSET DocKeys : Cardinality(J) <= MaxEntries}}

\* The documents found under the mapper's key at construction.
StoredDocs == UNION {[K -> DocValues] : K \in {{}} \cup {{key} : key \in DocKeys}}

PersistSpecInit ==
    /\ LearnInit
    /\ ControllerInit
    /\ VideoInit
    /\ BeatInit
    /\ PeakInit
    /\ EngineInit
    /\ AppInit
    /\ ports = <<>>
    /\ exported = {}
    /\ exportedValues = EmptyMap
    /\ timers = {}
    /\ timerSeq = 0
    /\ now = 0
    /\ localStorage \in {EmptyMap} \cup {MapSet(EmptyMap, MapperStorageKey, d) : d \in StoredDocs}
    /\ mappings = initializeDefaultMappings
    /\ activeValues = loadMappings(EmptyMap, localStorage)
    /\ lastUpdateTime = EmptyMap
    /\ onValueChangeCallback = "app"
    /\ notified = <<>>
    /\ probe = [cc |-> 0, value |-> 0]
    /\ call = NoCall

\* What a call of the mapper other than handleCC leaves alone.
PersistFrame ==
    /\ notified' = <<>>
    /\ ccEvents' = <<>>
    /\ UNCHANGED <<mappings, onValueChangeCallback>>
    /\ UNCHANGED <<isLearning, learningTarget, learnTimeout, tempCCHandler,
                   customMappings, learnEvents, onCCCallback, timers, timerSeq>>
    /\ UNCHANGED <<deviceVars, wasActive>>
    /\ UNCHANGED <<beatVars, peakVars, engineVars, appVars>>
    /\ UNCHANGED <<now, probe>>
    /\ UNCHANGED videoVars

CallResetToDefaults ==
    /\ LET M == resetToDefaults(MapperState)
       IN  /\ activeValues' = M.activeValues
           /\ lastUpdateTime' = M.lastUpdateTime
    /\ call' = Call("resetToDefaults", 0, 0)
    /\ UNCHANGED <<localStorage, exported, exportedValues>>
    /\ PersistFrame

CallResetCC(cc) ==
    /\ LET M == resetCC(MapperState, cc)
       IN  /\ activeValues' = M.activeValues
           /\ lastUpdateTime' = M.lastUpdateTime
    /\ call' = Call("resetCC", cc, 0)
    /\ UNCHANGED <<localStorage, exported, exportedValues>>
    /\ PersistFrame

\* importMappings(data); call.b tells whether the catch block ran.
CallImportMappings(data) ==
    /\ LET r == importMappings(activeValues, data)
       IN  /\ activeValues' = r.activeValues
           /\ call' = Call("importMappings", data, r.threw)
    /\ UNCHANGED <<lastUpdateTime, localStorage, exported, exportedValues>>
    /\ PersistFrame

CallLoadMappings ==
    /\ activeValues' = loadMappings(activeValues, localStorage)
    /\ call' = Call("loadMappings", 0, 0)
    /\ UNCHANGED <<lastUpdateTime, localStorage, exported, exportedValues>>
    /\ PersistFrame

PersistNext ==
    \/ \E cc \in PersistCCs, value \in PersistValues : CallHandleCC(cc, value)
    \/ CallResetToDefaults
    \/ \E cc \in PersistCCs : CallResetCC(cc)
    \/ \E data \in ImportDocs : CallImportMappings(data)
    \/ CallLoadMappings

SpecPersist == PersistSpecInit /\ [][PersistNext]_vars

\* The default the table gives controller t, in the unit of the stored values.
TableDefault(t) == MappingRows[t - 34].default * 127

\* C12: after resetToDefaults(), whatever handleCC, resetCC, importMappings
\* and loadMappings did before, getValue(c) is c's table default for each
\* of the 64 CCs 35..98; resetCC(c) gives c its default and leaves the
\* value of every other CC as it was.
C12_ResetRestoresDefaults ==
    [][/\ call'.op = "resetToDefaults" =>
              \A c \in 35..98 : getValue(activeValues', c) = {TableDefault(c)}
       /\ (call'.op = "resetCC" /\ call'.a \in 35..98) =>
              /\ getValue(activeValues', call'.a) = {TableDefault(call'.a)}
              /\ \A c \in (0..MidiMax) \ {call'.a} :
                    getValue(activeValues', c) = getValue(activeValues, c)]_vars

\* resetCC(35) ran on a mapper holding a loaded entry (99) and an
\* imported one (98), and these two are still there.
C12_Witness ==
    /\ call = Call("resetCC", 35, 0)
    /\ activeValues[35] = TableDefault(35)
    /\ DOMAIN activeValues = {35, 98, 99}
    /\ activeValues[98] = 7

\* C14: every key of the active-value table lies in [35,98], whatever the
\* imported and the persisted documents hold, so that exportMappings()
\* finds a mapping for every stored key.
C14_KeysInRange ==
    /\ DOMAIN activeValues \subseteq 35..98
    /\ ~exportMappings(activeValues).threw

\* C15: an importMappings call that fails part-way leaves the active-value
\* table exactly as it was before the call.
C15_FailedImportChangesNothing ==
    [][(call'.op = "importMappings" /\ call'.b) => activeValues' = activeValues]_vars

\* C34: every value of the active-value table whose controller has a
\* mapping lies within that mapping's range from min to max, whatever
\* handleCC, resetToDefaults, resetCC, importMappings and loadMappings calls
\* have been made.
C34_ValuesWithinRange ==
    \A cc \in (DOMAIN activeValues) \cap (DOMAIN mappings) :
        /\ activeValues[cc] >= mappings[cc].min * MidiMax
        /\ activeValues[cc] <= mappings[cc].max * MidiMax

----------------------------------------------------------------------------
(* SpecRoundTrip: a document is exported, the mapper moves on, and the     *)
(* document is imported again.                                             *)

RoundTripCCs == {35, 98}

\* exportMappings(); call.b tells whether it threw, and then the caller
\* has no new document.
CallExportMappings ==
    /\ LET r == exportMappings(activeValues)
       IN  /\ exported' = IF r.threw THEN exported ELSE {r.data}
           /\ exportedValues' = IF r.threw THEN exportedValues ELSE activeValues
           /\ call' = Call("exportMappings", 0, r.threw)
    /\ UNCHANGED <<activeValues, lastUpdateTime, localStorage>>
    /\ PersistFrame

\* importMappings of the document exportMappings returned last.
CallImportExported ==
    /\ exported # {}
    /\ LET data == CHOOSE d \in exported : TRUE
           r == importMappings(activeValues, data)
       IN  /\ activeValues' = r.activeValues
           /\ call' = Call("importExported", 0, r.threw)
    /\ UNCHANGED <<lastUpdateTime, localStorage, exported, exportedValues>>
    /\ PersistFrame

RoundTripNext ==
    \/ \E cc \in RoundTripCCs, value \in PersistValues : CallHandleCC(cc, value)
    \/ CallResetToDefaults
    \/ CallExportMappings
    \/ CallImportExported

SpecRoundTrip == PersistSpecInit /\ [][RoundTripNext]_vars

\* C13: for every CC in 35..98 that held an explicit value when
\* exportMappings() returned its document, a mapper that imports that
\* document reports that value for the CC; the import does not fail.
C13_ExportImportRoundTrip ==
    [][call'.op = "importExported" =>
          /\ call'.b = FALSE
          /\ \A c \in (DOMAIN exportedValues) \cap (35..98) :
                getValue(activeValues', c) = {exportedValues[c]}]_vars

\* The value handleCC(35, 127) stored was exported, resetToDefaults() put
\* every CC back to its default and cleared the update times, and the
\* import brought the exported value back.
C13_Witness ==
    /\ call.op = "importExported"
    /\ DOMAIN activeValues = 35..98
    /\ activeValues[98] = TableDefault(98)
    /\ activeValues[35] = TableValue(35, 127)
    /\ exportedValues = MapSet(EmptyMap, 35, TableValue(35, 127))
    /\ lastUpdateTime = EmptyMap

----------------------------------------------------------------------------
(* SpecBeat: one BeatDetector, fed once per rendered frame.  The detector  *)
(* is built by AudioEngine.initialize(), which runs on a click on the      *)
(* microphone button, long after the time origin of performance.now().     *)

MaxFrames == 4          \* analyze() calls in one run
FrameMs == 50           \* the shortest time between two frames

BeatStart == 20 * FrameMs
FrameGaps == {FrameMs, 2 * FrameMs}

NoLevels ==
    [subBass |-> 0, bass |-> 0, lowMid |-> 0, mid |-> 0, presence |-> 0, air |-> 0]

\* The level snapshots fed to analyze: silence, a kick (energy 1.0) and a
\* snare (energy 0.3).
FrameLevels ==
    {NoLevels,
     [NoLevels EXCEPT !.subBass = 1, !.bass = 1, !.lowMid = 1],
     [NoLevels EXCEPT !.lowMid = 1, !.mid = 1]}

SensitivityInputs == {0, 10}        \* setSensitivity(0), setSensitivity(1.0)

BeatSpecInit ==
    /\ MapperInit
    /\ LearnInit
    /\ ControllerInit
    /\ VideoInit
    /\ BeatInit
    /\ PeakInit
    /\ EngineInit
    /\ AppInit
    /\ ports = <<>>
    /\ exported = {}
    /\ exportedValues = EmptyMap
    /\ timers = {}
    /\ timerSeq = 0
    /\ localStorage = EmptyMap
    /\ now = BeatStart
    /\ probe = [cc |-> 0, value |-> 0]
    /\ call = NoCall

\* What a step of the audio side leaves alone.
AudioFrame ==
    /\ UNCHANGED mapperVars
    /\ UNCHANGED learnVars
    /\ UNCHANGED videoVars
    /\ UNCHANGED <<deviceVars, wasActive, exported, exportedValues, probe>>
    /\ UNCHANGED <<peakVars, engineVars, appVars>>
    /\ ccEvents' = <<>>

\* The next frame is rendered dt later: AudioEngine.update() hands the
\* levels of the frame to beatDetector.analyze.
Frame(dt, levels) ==
    /\ beatDetector = "live"
    /\ Len(frameLog) < MaxFrames
    /\ now' = now + dt
    /\ LET B == analyze(BeatState, levels, now')
       IN  /\ SetBeatState(B)
           /\ frameLog' = Append(frameLog,
                  [time |-> now', levels |-> levels, sensitivity |-> sensitivity,
                   minTime |-> minTimeBetweenBeats,
                   spike |-> Exceeds([BeatState EXCEPT !.energyHistory = B.energyHistory],
                                     7 * levels.bass + 3 * levels.lowMid),
                   isBeat |-> B.isBeat, isKick |-> B.isKick, isSnare |-> B.isSnare,
                   isHiHat |-> B.isHiHat])
    /\ call' = Call("analyze", 0, 0)
    /\ UNCHANGED beatDetector
    /\ AudioFrame

CallSetSensitivity(value) ==
    /\ beatDetector = "live"
    /\ SetBeatState(setSensitivity(BeatState, value))
    /\ call' = Call("setSensitivity", value, 0)
    /\ UNCHANGED <<beatDetector, frameLog, now>>
    /\ AudioFrame

\* AudioEngine.dispose(): the detector is reset and let go.
AudioDispose ==
    /\ beatDetector = "live"
    /\ SetBeatState(reset(BeatState))
    /\ beatDetector' = "null"
    /\ call' = Call("dispose", 0, 0)
    /\ UNCHANGED <<frameLog, now>>
    /\ AudioFrame

BeatNext ==
    \/ \E dt \in FrameGaps, levels \in FrameLevels : Frame(dt, levels)
    \/ \E value \in SensitivityInputs : CallSetSensitivity(value)
    \/ AudioDispose

SpecBeat == BeatSpecInit /\ [][BeatNext]_vars

\* C17: any two general-beat events analyze reports are at least
\* minTimeBetweenBeats apart; a sample that exceeds the thresholds is
\* reported as a beat exactly when no beat was reported less than
\* minTimeBetweenBeats before it, so two spikes closer together than that
\* give one beat and two spikes farther apart give two; a sample that does
\* not exceed them is no beat.  The kick, snare and hi-hat flags do not
\* depend on the time: the same levels at the same sensitivity set the
\* same flags on any tick.
C17_BeatDebounce ==
    LET n == Len(frameLog)
        Apart(i, j) == frameLog[j].time - frameLog[i].time >= frameLog[j].minTime
    IN  /\ \A i \in 1..n, j \in 1..n :
              (i < j /\ frameLog[i].isBeat /\ frameLog[j].isBeat) => Apart(i, j)
        /\ \A j \in 1..n :
              frameLog[j].isBeat <=>
                  /\ frameLog[j].spike
                  /\ \A i \in 1..(j - 1) : frameLog[i].isBeat => Apart(i, j)
        /\ \A i \in 1..n, j \in 1..n :
              (/\ frameLog[i].levels = frameLog[j].levels
               /\ frameLog[i].sensitivity = frameLog[j].sensitivity) =>
                  /\ frameLog[i].isKick = frameLog[j].isKick
                  /\ frameLog[i].isSnare = frameLog[j].isSnare
                  /\ frameLog[i].isHiHat = frameLog[j].isHiHat

\* Three kicks in a row, each exceeding the thresholds and each setting the
\* kick flag: the first is a beat, the second, 50 ms later, is not, and the
\* third, one more frame later and no less than minTimeBetweenBeats after
\* the first, is a beat again.
C17_Witness ==
    /\ Len(frameLog) = 4
    /\ \A j \in 2..4 : frameLog[j].spike /\ frameLog[j].isKick
    /\ frameLog[2].isBeat /\ ~frameLog[3].isBeat /\ frameLog[4].isBeat
    /\ frameLog[3].time - frameLog[2].time = FrameMs
    /\ frameLog[4].time - frameLog[3].time = FrameMs
    /\ frameLog[4].time - frameLog[2].time >= frameLog[4].minTime

----------------------------------------------------------------------------
(* SpecPeaks: one FrequencyAnalyzer under a clock.  analyze() runs on any  *)
(* tick with any levels, a peak-hold timer fires once its time has come,   *)
(* and resetPeaks() and dispose() may be called at any time.               *)

MaxPeakTicks == 4       \* clock ticks in one run
PeakTickMs == 500       \* length of a clock tick
MaxHoldTimers == 3      \* peak-hold timers armed in one run

LevelInputs == {0, 128, 255}        \* average byte of a band

PeakSpecInit ==
    /\ MapperInit
    /\ LearnInit
    /\ ControllerInit
    /\ VideoInit
    /\ BeatInit
    /\ PeakInit
    /\ EngineInit
    /\ AppInit
    /\ ports = <<>>
    /\ exported = {}
    /\ exportedValues = EmptyMap
    /\ timers = {}
    /\ timerSeq = 0
    /\ localStorage = EmptyMap
    /\ now = 0
    /\ probe = [cc |-> 0, value |-> 0]
    /\ call = NoCall

\* What a step of the analyzer leaves alone.
PeakFrame ==
    /\ UNCHANGED mapperVars
    /\ UNCHANGED learnVars
    /\ UNCHANGED videoVars
    /\ UNCHANGED <<deviceVars, wasActive, exported, exportedValues, probe>>
    /\ UNCHANGED <<beatVars, engineVars, appVars>>
    /\ ccEvents' = <<>>

PeakTick ==
    /\ now < MaxPeakTicks * PeakTickMs
    /\ now' = now + PeakTickMs
    /\ call' = Call("tick", 0, 0)
    /\ UNCHANGED peakVars
    /\ PeakFrame

\* analyze() on the levels of the current frame.
CallAnalyze(levels) ==
    /\ frequencyAnalyzer = "live"
    /\ LET P == analyzeBands(PeakState, levels, now)
       IN  /\ P.holdSeq <= MaxHoldTimers
           /\ SetPeakState(P)
    /\ lastRaise' = [name \in BandNames |->
                        IF levels[name] > bands[name].peak THEN {now}
                        ELSE lastRaise[name]]
    /\ call' = Call("analyze", levels, 0)
    /\ UNCHANGED <<frequencyAnalyzer, now>>
    /\ PeakFrame

\* A peak-hold timer whose time has come runs its callback.
PeakTimerFire(tm) ==
    /\ tm \in holdTimers
    /\ tm.due <= now
    /\ SetPeakState(peakHoldExpired(PeakState, tm))
    /\ call' = Call("peakTimer", tm.band, tm.id)
    /\ UNCHANGED <<frequencyAnalyzer, lastRaise, now>>
    /\ PeakFrame

CallResetPeaks ==
    /\ frequencyAnalyzer = "live"
    /\ SetPeakState(resetPeaks(PeakState))
    /\ call' = Call("resetPeaks", 0, 0)
    /\ UNCHANGED <<frequencyAnalyzer, lastRaise, now>>
    /\ PeakFrame

\* AudioEngine.dispose(): the analyzer is disposed and let go.
AnalyzerDispose ==
    /\ frequencyAnalyzer = "live"
    /\ SetPeakState(disposeAnalyzer(PeakState))
    /\ frequencyAnalyzer' = "null"
    /\ call' = Call("dispose", 0, 0)
    /\ UNCHANGED <<lastRaise, now>>
    /\ PeakFrame

PeakNext ==
    \/ PeakTick
    \/ \E levels \in [BandNames -> LevelInputs] : CallAnalyze(levels)
    \/ \E tm \in holdTimers : PeakTimerFire(tm)
    \/ CallResetPeaks
    \/ AnalyzerDispose

SpecPeaks == PeakSpecInit /\ [][PeakNext]_vars

\* A sample above the peak becomes the peak at once and leaves the band
\* with exactly one armed timer, a new one, due peakHoldTime later.
RaiseRearms ==
    \A name \in BandNames :
        (call'.op = "analyze" /\ bands'[name].level > bands[name].peak) =>
            /\ bands'[name].peak = bands'[name].level
            /\ \E tm \in holdTimers' \ holdTimers :
                   /\ tm.due = now + peakHoldTime
                   /\ {t \in holdTimers' : t.band = name} = {tm}
                   /\ peakHoldTimers'[name] = {tm.id}

\* A timer lowers the peak of its own band only, to the band's level, and
\* no earlier than peakHoldTime after the last sample above the peak.
LoweredByTimer(name) ==
    /\ call'.op = "peakTimer"
    /\ call'.a = name
    /\ bands'[name].peak = bands[name].level
    /\ \E t \in lastRaise[name] : now >= t + peakHoldTime

\* C18 as stated: the peak of a band goes down only when its hold timer
\* fires, peakHoldTime after the last sample above the peak, and a sample
\* above the peak raises it at once and re-arms the timer.
C18_PeakFallsOnlyByTimer ==
    [][/\ \A name \in BandNames :
             bands'[name].peak < bands[name].peak => LoweredByTimer(name)
       /\ RaiseRearms]_vars

\* C18, amended: the peak of a band goes down only when its hold timer
\* fires, no earlier than peakHoldTime after the last sample above the
\* peak, or when resetPeaks() sets it to the band's level; a sample above
\* the peak raises it at once and leaves exactly one armed timer for the
\* band, due peakHoldTime later, so that every armed timer of a band is
\* the one of its last raise; the level is never above the peak.
C18_PeakHold ==
    /\ [](\A name \in BandNames :
             /\ bands[name].level <= bands[name].peak
             /\ \A tm \in holdTimers :
                    tm.band = name =>
                        /\ peakHoldTimers[name] = {tm.id}
                        /\ lastRaise[name] = {tm.due - peakHoldTime}
                        /\ \A t \in holdTimers : t.band = name => t = tm)
    /\ [][/\ \A name \in BandNames :
                bands'[name].peak < bands[name].peak =>
                    \/ LoweredByTimer(name)
                    \/ /\ call'.op = "resetPeaks"
                       /\ bands'[name].peak = bands[name].level
          /\ RaiseRearms]_vars

\* A band was raised, raised again while its first timer was armed, fell
\* silent, and its second timer has just lowered the peak to the level.
C18_Witness ==
    /\ call.op = "peakTimer"
    /\ call.a = "bass"
    /\ call.b = 2
    /\ bands["bass"].peak = 0
    /\ \E t \in lastRaise["bass"] : t > 0 /\ now >= t + peakHoldTime
    /\ holdTimers = {}

----------------------------------------------------------------------------
(* SpecAudio: one AudioEngine from its construction on.  initialize() is   *)
(* called by a click on the microphone button and waits for getUserMedia,  *)
(* which resolves or rejects later; start(), stop(), update() and          *)
(* dispose() may be called at any time.                                    *)

MaxEngineInits == 2     \* initialize() calls in one run
MaxUpdates == 2         \* update() calls on one beat detector

\* The engine is constructed without analyzers.
AudioSpecInit ==
    /\ MapperInit
    /\ LearnInit
    /\ ControllerInit
    /\ VideoInit
    /\ EngineInit
    /\ AppInit
    /\ beatDetector = "null"
    /\ sensitivity = DefaultSensitivity
    /\ threshold = DefaultThreshold
    /\ minTimeBetweenBeats = DefaultMinTimeBetweenBeats
    /\ lastBeatTime = 0
    /\ isKick = FALSE
    /\ isSnare = FALSE
    /\ isHiHat = FALSE
    /\ energyHistory = <<>>
    /\ frameLog = <<>>
    /\ frequencyAnalyzer = "null"
    /\ bands = [name \in BandNames |-> [level |-> 0, peak |-> 0]]
    /\ peakHoldTimers = [name \in BandNames |-> {}]
    /\ holdTimers = {}
    /\ holdSeq = 0
    /\ lastRaise = [name \in BandNames |-> {}]
    /\ EnvInit
    /\ probe = [cc |-> 0, value |-> 0]
    /\ call = NoCall

\* What a step of the engine leaves alone.
EngineFrame ==
    /\ UNCHANGED mapperVars
    /\ UNCHANGED learnVars
    /\ UNCHANGED videoVars
    /\ UNCHANGED <<deviceVars, wasActive, exported, exportedValues, probe, now>>
    /\ UNCHANGED appVars
    /\ UNCHANGED <<frameLog, lastRaise>>
    /\ ccEvents' = <<>>

EngineCall(E, op) ==
    /\ SetEngineState(E)
    /\ call' = Call(op, 0, 0)
    /\ UNCHANGED <<enginePending, engineInits, engineDisposed>>
    /\ EngineFrame

\* initialize() up to its await.
CallEngineInitialize ==
    /\ engineInits < MaxEngineInits
    /\ engineInits' = engineInits + 1
    /\ enginePending' = enginePending + 1
    /\ engineDisposed' = FALSE
    /\ SetEngineState(initializeEngine(EngineState))
    /\ call' = Call("initialize", 0, 0)
    /\ EngineFrame

\* getUserMedia resolves with a stream; initialize() runs to its end.
EngineGranted ==
    /\ enginePending > 0
    /\ enginePending' = enginePending - 1
    /\ SetEngineState(engineGranted(EngineState))
    /\ call' = Call("granted", 0, 0)
    /\ UNCHANGED <<engineInits, engineDisposed>>
    /\ EngineFrame

\* getUserMedia rejects (permission denied, no device); initialize() fails.
EngineRejected ==
    /\ enginePending > 0
    /\ enginePending' = enginePending - 1
    /\ SetEngineState(engineRejected(EngineState))
    /\ call' = Call("initializeFailed", 0, 0)
    /\ UNCHANGED <<engineInits, engineDisposed>>
    /\ EngineFrame

CallStart == EngineCall(start(EngineState), "start")

CallStop == EngineCall(stop(EngineState), "stop")

CallUpdate(levels) ==
    /\ updateReturnsNull(EngineState) \/ Len(energyHistory) < MaxUpdates
    /\ EngineCall(update(EngineState, levels, now), "update")

CallEngineDispose ==
    /\ SetEngineState(disposeEngine(EngineState))
    /\ engineDisposed' = TRUE
    /\ call' = Call("dispose", 0, 0)
    /\ UNCHANGED <<enginePending, engineInits>>
    /\ EngineFrame

AudioNext ==
    \/ CallEngineInitialize
    \/ EngineGranted
    \/ EngineRejected
    \/ CallStart
    \/ CallStop
    \/ \E levels \in FrameLevels : CallUpdate(levels)
    \/ CallEngineDispose

SpecAudio == AudioSpecInit /\ [][AudioNext]_vars

\* The engine holds nothing: no node, no stream, no context, no analyzer.
Released ==
    /\ source = "null" /\ gainNode = "null" /\ analyzer = "null"
    /\ microphone = "null" /\ audioContext = "null"
    /\ frequencyAnalyzer = "null" /\ beatDetector = "null"

\* C21: when initialize() has failed the engine is Uninitialized, whatever
\* it was when initialize() was called: isReady() is false, start() is
\* refused and update() returns null.
C21_FailedInitializeIsUninitialized ==
    call.op = "initializeFailed" =>
        /\ ~engineIsReady(EngineState)
        /\ start(EngineState) = EngineState
        /\ updateReturnsNull(EngineState)

\* C22: once dispose() has run, from whatever state, and for as long as
\* initialize() is not called again, the engine holds nothing, isEnabled
\* and isRunning are false and update() returns null; a further dispose()
\* changes nothing.
C22_DisposeReleases ==
    /\ [](engineDisposed =>
             /\ Released
             /\ ~engineEnabled
             /\ ~isRunning
             /\ updateReturnsNull(EngineState))
    /\ [][(engineDisposed /\ call'.op = "dispose") =>
              UNCHANGED <<engineVars, beatVars, peakVars>>]_vars

\* C37: when dispose() has been called while initialize() was waiting for
\* the microphone, the engine holds no stream and no context and is neither
\* enabled nor running once the request has been answered, by a grant or by
\* a refusal.
C37_DisposeDuringInitialize ==
    [][(engineDisposed /\ call'.op \in {"granted", "initializeFailed"}) =>
          /\ microphone' = "null"
          /\ audioContext' = "null"
          /\ ~engineEnabled'
          /\ ~isRunning']_vars

----------------------------------------------------------------------------
(* SpecSession: the mapper and the learner over one localStorage through   *)
(* several sessions of the page.  A session ends when the page is loaded   *)
(* again: the constructors run anew and read what the store holds.         *)

SessionCCs == {35, 99}
SessionValues == {127}
SessionTargets == {40, 30}
SessionLearnCCs == {50}
SessionNames == {"p"}

\* The documents handed to importMappings.
ValueDocs == {("35" :> {[value |-> 7]}), ("35" :> {})}

\* The argument of importCustomMappings: null, or a document whose entry is
\* a route or null.
RouteDocs ==
    {{}} \cup
    {{("50" :> [originalCC |-> 40, mapping |-> initializeDefaultMappings[40]])},
     {("50" :> NullRoute)}}

SessionSpecInit == LearnSpecInit

\* What the calls of the learner's route management leave alone.
SessionFrame ==
    /\ UNCHANGED mapperRest
    /\ UNCHANGED <<now, probe>>
    /\ UNCHANGED videoVars
    /\ UNCHANGED quietVars
    /\ ccEvents' = <<>>

CallSaveMappings ==
    /\ localStorage' = saveMappings(activeValues, localStorage)
    /\ call' = Call("saveMappings", 0, 0)
    /\ UNCHANGED <<activeValues, lastUpdateTime, exported, exportedValues>>
    /\ PersistFrame

CallRemoveCustomMapping(cc) ==
    /\ SetLearnState(removeCustomMapping(Entering, cc))
    /\ call' = Call("removeCustomMapping", cc, 0)
    /\ SessionFrame

CallClearAllCustomMappings ==
    /\ SetLearnState(clearAllCustomMappings(Entering))
    /\ call' = Call("clearAllCustomMappings", 0, 0)
    /\ SessionFrame

CallImportCustomMappings(data) ==
    /\ SetLearnState(importCustomMappings(Entering, data))
    /\ call' = Call("importCustomMappings", data, 0)
    /\ SessionFrame

\* The page is loaded again over the same store: main.js constructs a new
\* MIDIMapper and a new MIDILearn, whose constructors load their documents,
\* and registers its CC listener.  The timers of the old page are gone.
NewSession ==
    /\ mappings' = initializeDefaultMappings
    /\ activeValues' = loadMappings(EmptyMap, localStorage)
    /\ lastUpdateTime' = EmptyMap
    /\ onValueChangeCallback' = "app"
    /\ notified' = <<>>
    /\ LET L == loadCustomMappings([Entering EXCEPT !.customMappings = EmptyMap])
       IN  customMappings' = L.customMappings
    /\ isLearning' = FALSE
    /\ learningTarget' = {}
    /\ learnTimeout' = {}
    /\ tempCCHandler' = "null"
    /\ learnEvents' = <<>>
    /\ onCCCallback' = "app"
    /\ timers' = {}
    /\ call' = Call("newSession", 0, 0)
    /\ ccEvents' = <<>>
    /\ UNCHANGED <<timerSeq, localStorage>>
    /\ UNCHANGED <<now, probe>>
    /\ UNCHANGED videoVars
    /\ UNCHANGED quietVars

SessionNext ==
    \/ \E cc \in SessionCCs, value \in SessionValues : CallHandleCC(cc, value)
    \/ CallResetToDefaults
    \/ \E cc \in SessionCCs : CallResetCC(cc)
    \/ \E data \in ValueDocs : CallImportMappings(data)
    \/ CallLoadMappings
    \/ CallSaveMappings
    \/ \E targetCC \in SessionTargets, parameterName \in SessionNames :
          CallStartLearning(targetCC, parameterName)
    \/ \E cc \in SessionLearnCCs : CallHandleLearnCC(cc)
    \/ \E cc \in SessionLearnCCs : CallRemoveCustomMapping(cc)
    \/ CallClearAllCustomMappings
    \/ \E data \in RouteDocs : CallImportCustomMappings(data)
    \/ NewSession

SpecSession == SessionSpecInit /\ [][SessionNext]_vars

\* The document stored under key holds exactly the entries of table, each
\* under the decimal string of its controller number.
Holds(storage, key, table) ==
    /\ key \in DOMAIN storage
    /\ DOMAIN storage[key] = {DecimalKeys[c] : c \in DOMAIN table}
    /\ \A c \in DOMAIN table : storage[key][DecimalKeys[c]] = table[c]

\* C23: active values are persisted automatically: once handleCC,
\* resetToDefaults or importMappings has set a value, the stored document
\* holds exactly the active-value table, and the mapper of the next session
\* reports every value the table held when the session ended.
C23_ValuesPersistAcrossSessions ==
    /\ []((/\ call.op \in {"handleCC", "resetToDefaults", "importMappings"}
           /\ activeValues # EmptyMap)
             => Holds(localStorage, MapperStorageKey, activeValues))
    /\ [][call'.op = "newSession" =>
              \A c \in DOMAIN activeValues :
                  c \in DOMAIN activeValues' /\ activeValues'[c] = activeValues[c]]_vars

\* C24: after a learn, removeCustomMapping, clearAllCustomMappings or
\* importCustomMappings call the stored route document holds exactly the
\* routes of the in-memory table (no document standing for no routes), and
\* the learner of the next session has the routes the table held when the
\* session ended.
C24_RoutesPersistImmediately ==
    /\ [](call.op \in {"handleLearnCC", "removeCustomMapping",
                       "clearAllCustomMappings", "importCustomMappings"}
             => \/ Holds(localStorage, LearnStorageKey, customMappings)
                \/ /\ LearnStorageKey \notin DOMAIN localStorage
                   /\ customMappings = EmptyMap)
    /\ [][(/\ call.op \in {"handleLearnCC", "removeCustomMapping",
                           "clearAllCustomMappings", "importCustomMappings"}
           /\ call'.op = "newSession")
              => customMappings' = customMappings]_vars

\* C35: an importCustomMappings call that fails, its argument being no
\* document at all, leaves the route table and the stored route document
\* as they were before the call.
C35_FailedRouteImportChangesNothing ==
    [][(call'.op = "importCustomMappings" /\ call'.a = {}) =>
          /\ customMappings' = customMappings
          /\ localStorage' = localStorage]_vars

\* C25: the default mapping table has its 64 entries, one for each number
\* in 35..98, each the descriptor it was constructed with, whatever calls
\* of the mapper and of the learner have been made.
C25_DefaultTableUnchanged ==
    /\ DOMAIN mappings = 35..98
    /\ Cardinality(DOMAIN mappings) = 64
    /\ \A cc \in DOMAIN mappings : mappings[cc] = MappingRows[cc - 34]

\* A learned route from 50 to 40 is in place, a value is active for 35, and
\* the session is not the first one.
C25_Witness ==
    /\ call.op = "handleLearnCC"
    /\ 50 \in DOMAIN customMappings
    /\ customMappings[50] # NullRoute
    /\ customMappings[50].originalCC = 40
    /\ 35 \in DOMAIN activeValues
    /\ LearnStorageKey \in DOMAIN localStorage
    /\ MapperStorageKey \in DOMAIN localStorage
    /\ timerSeq >= 2

----------------------------------------------------------------------------
(* SpecRoutes: routes are learned on controller numbers that are targets   *)
(* of other routes, and processCC is called for them.                      *)

RouteCCs == {50, 40}
RouteTargets == {40, 36}
RouteValues == {0, 127}

RoutesNext ==
    \/ \E targetCC \in RouteTargets, parameterName \in ParameterNames :
          CallStartLearning(targetCC, parameterName)
    \/ \E cc \in RouteCCs : CallHandleLearnCC(cc)
    \/ \E cc \in RouteCCs, value \in RouteValues : CallProcessCC(cc, value)

SpecRoutes == LearnSpecInit /\ [][RoutesNext]_vars

\* C38: processCC(c, v) follows at most one route.  It stores the value
\* scaled by the range of c's destination (c itself without a route) for
\* that destination and changes the value of no other controller, also
\* when the destination has a route of its own.  A successful learn on
\* CC c makes the new target c's one destination and leaves the routes of
\* the other numbers alone.
C38_SingleHopRoutes ==
    /\ [][call'.op = "processCC" =>
              LET c == call'.a
                  t == IF c \in DOMAIN customMappings
                       THEN customMappings[c].originalCC ELSE c
              IN  /\ DOMAIN activeValues' = (DOMAIN activeValues) \cup {t}
                  /\ activeValues'[t] = TableValue(t, call'.b)
                  /\ \A k \in (DOMAIN activeValues) \ {t} :
                         activeValues'[k] = activeValues[k]]_vars
    /\ [][(call'.op = "handleLearnCC" /\ isLearning) =>
              \A tg \in learningTarget :
                  /\ DOMAIN customMappings' = (DOMAIN customMappings) \cup {call'.a}
                  /\ customMappings'[call'.a].originalCC = tg.cc
                  /\ \A k \in (DOMAIN customMappings) \ {call'.a} :
                         customMappings'[k] = customMappings[k]]_vars

\* With the routes 50 -> 40 and 40 -> 36 in place, processCC(50, 127) has
\* stored the max of CC 40, and CC 36 and CC 50 hold nothing.
C38_Witness ==
    /\ call.op = "processCC" /\ call.a = 50 /\ call.b = 127
    /\ DOMAIN customMappings = {40, 50}
    /\ customMappings[50].originalCC = 40
    /\ customMappings[40].originalCC = 36
    /\ activeValues = (40 :> 127 * 200)

----------------------------------------------------------------------------
(* SpecParams: control changes reach the mapper through the listener       *)
(* main.js registers, and the mapper's notification reaches this.params.   *)

ParamCCs == {35, 46, 58, 81, 87, 97, 98}
ParamValues == {0, 127}

\* A control change is handed to midiMapper.handleCC; the value-change
\* listener runs handleMIDIValueChange, which also sets the playback rate
\* (in hundredths) and the beat sensitivity (in tenths).  The end values
\* 0 and 127 divide without a remainder.
ControlChange(cc, value) ==
    /\ handleCC(cc, value)
    /\ params' = IF notified' = <<>>
                 THEN params
                 ELSE handleMIDIValueChange(params, notified'[1])
    /\ playbackRate' =
          IF notified' # <<>> /\ notified'[1].mapping.target = "video.playbackRate"
          THEN setPlaybackRate(VideoState, notified'[1].value \div MidiMax).playbackRate
          ELSE playbackRate
    /\ sensitivity' =
          IF /\ notified' # <<>>
             /\ notified'[1].mapping.target = "audioMod.beatSensitivity"
             /\ beatDetector # "null"
          THEN setSensitivity(BeatState, notified'[1].value \div (10 * MidiMax)).sensitivity
          ELSE sensitivity
    /\ call' = Call("controlChange", cc, value)
    /\ ccEvents' = <<>>
    /\ UNCHANGED learnVars
    /\ UNCHANGED <<videos, currentIndex, isPlaying, elementPaused, playPending,
                   loading, addCalls, videoErrors>>
    /\ UNCHANGED <<beatDetector, threshold, minTimeBetweenBeats, lastBeatTime,
                   isKick, isSnare, isHiHat, energyHistory, frameLog>>
    /\ UNCHANGED <<deviceVars, wasActive, exported, exportedValues, peakVars, engineVars>>
    /\ UNCHANGED <<stateHistory, currentHistoryIndex, saveCount, now, probe>>

ParamsNext == \E cc \in ParamCCs, value \in ParamValues : ControlChange(cc, value)

SpecParams == LearnSpecInit /\ [][ParamsNext]_vars

\* C32: an accepted control change for any of the 64 controllers sets one
\* of the fields initializeParameters created to the scaled value, leaves
\* the other fields as they were, and adds no field.
C32_EveryCCReachesItsParameter ==
    [][(call'.op = "controlChange" /\ call'.a \in 35..98) =>
          /\ DOMAIN params' = DOMAIN initializeParameters
          /\ \E f \in DOMAIN initializeParameters :
                /\ params'[f] = TableValue(call'.a, call'.b)
                /\ \A g \in (DOMAIN initializeParameters) \ {f} :
                       params'[g] = params[g]]_vars

----------------------------------------------------------------------------
(* SpecHistory: snapshots are saved, undone and redone.  Every snapshot    *)
(* handed to saveState carries its own number, so that the snapshots a     *)
(* call returns can be told apart.                                         *)

MaxSaves == 11          \* saveState calls in one run

\* What a call of the StateManager leaves alone.
StateFrame ==
    /\ UNCHANGED mapperVars
    /\ UNCHANGED <<isLearning, learningTarget, learnTimeout, tempCCHandler,
                   customMappings, learnEvents, onCCCallback, timers, timerSeq>>
    /\ UNCHANGED videoVars
    /\ UNCHANGED <<deviceVars, wasActive, exported, exportedValues, beatVars,
                   peakVars, engineVars>>
    /\ UNCHANGED <<params, now, probe>>
    /\ ccEvents' = <<>>

SetStateManagerState(S) ==
    /\ stateHistory' = S.history
    /\ currentHistoryIndex' = S.currentHistoryIndex
    /\ localStorage' = S.localStorage

CallSaveState ==
    /\ saveCount < MaxSaves
    /\ saveCount' = saveCount + 1
    /\ SetStateManagerState(saveState(StateManagerState, [id |-> saveCount + 1]))
    /\ call' = Call("saveState", saveCount + 1, {})
    /\ StateFrame

CallUndo ==
    /\ LET r == undo(StateManagerState)
       IN  SetStateManagerState(r.S) /\ call' = Call("undo", 0, r.result)
    /\ UNCHANGED saveCount
    /\ StateFrame

CallRedo ==
    /\ LET r == redo(StateManagerState)
       IN  SetStateManagerState(r.S) /\ call' = Call("redo", 0, r.result)
    /\ UNCHANGED saveCount
    /\ StateFrame

HistoryNext == CallSaveState \/ CallUndo \/ CallRedo

SpecHistory == LearnSpecInit /\ [][HistoryNext]_vars

\* C39: the history is a bounded undo stack.  It holds at most 10
\* snapshots and the index stays between -1 and length-1.  An undo that
\* has an earlier snapshot to go to returns the one next below the current
\* one; a redo right after it returns the snapshot the undo left; after a
\* saveState the saved snapshot is the last and the current one, so nothing
\* is left to redo and a redo right after it returns null.
C39_BoundedUndoStack ==
    /\ [](/\ Len(stateHistory) <= 10
          /\ currentHistoryIndex >= -1
          /\ currentHistoryIndex <= Len(stateHistory) - 1)
    /\ [][(call'.op = "undo" /\ currentHistoryIndex > 0) =>
              /\ call'.b = {stateHistory[currentHistoryIndex]}
              /\ currentHistoryIndex' = currentHistoryIndex - 1
              /\ stateHistory' = stateHistory]_vars
    /\ [][(call'.op = "redo" /\ call.op = "undo" /\ call.b # {}) =>
              /\ call'.b = {stateHistory[currentHistoryIndex + 2]}
              /\ \A s \in call'.b, u \in call.b : s.id > u.id
              /\ currentHistoryIndex' = currentHistoryIndex + 1
              /\ stateHistory' = stateHistory]_vars
    /\ [][call'.op = "saveState" =>
              /\ currentHistoryIndex' = Len(stateHistory') - 1
              /\ stateHistory'[Len(stateHistory')] = [id |-> call'.a]
              /\ \A i \in 1..(Len(stateHistory') - 1) :
                     \E j \in 1..(currentHistoryIndex + 1) :
                         stateHistory'[i] = stateHistory[j]]_vars
    /\ [][(call'.op = "redo" /\ call.op = "saveState") => call'.b = {}]_vars

\* An undo has gone back one snapshot in a history that is full and has
\* dropped its oldest snapshot.
C39_Witness ==
    /\ call.op = "undo"
    /\ call.b # {}
    /\ Len(stateHistory) = 10
    /\ stateHistory[1].id > 1
    /\ currentHistoryIndex = 8

----------------------------------------------------------------------------
(* SpecPresets: named presets and quick slots in one store.                *)

PresetNames == {"a", "quick-1"}
Slots == {0, 1, 9, 10}
SnapshotIds == {1, 2}

CallSavePreset(name, id) ==
    /\ SetStateManagerState(savePreset(StateManagerState, name, [id |-> id], now))
    /\ call' = Call("savePreset", name, id)
    /\ UNCHANGED saveCount
    /\ StateFrame

CallSaveQuickPreset(slot, id) ==
    /\ SetStateManagerState(saveQuickPreset(StateManagerState, slot, [id |-> id], now))
    /\ call' = Call("saveQuickPreset", slot, id)
    /\ UNCHANGED saveCount
    /\ StateFrame

CallLoadPreset(name) ==
    /\ call' = Call("loadPreset", name, loadPreset(StateManagerState, name))
    /\ UNCHANGED <<stateHistory, currentHistoryIndex, localStorage, saveCount>>
    /\ StateFrame

CallLoadQuickPreset(slot) ==
    /\ call' = Call("loadQuickPreset", slot, loadQuickPreset(StateManagerState, slot))
    /\ UNCHANGED <<stateHistory, currentHistoryIndex, localStorage, saveCount>>
    /\ StateFrame

CallDeletePreset(name) ==
    /\ SetStateManagerState(deletePreset(StateManagerState, name))
    /\ call' = Call("deletePreset", name, 0)
    /\ UNCHANGED saveCount
    /\ StateFrame

PresetsNext ==
    \/ \E name \in PresetNames, id \in SnapshotIds : CallSavePreset(name, id)
    \/ \E slot \in Slots, id \in SnapshotIds : CallSaveQuickPreset(slot, id)
    \/ \E name \in PresetNames : CallLoadPreset(name)
    \/ \E slot \in Slots : CallLoadQuickPreset(slot)
    \/ \E name \in PresetNames : CallDeletePreset(name)

SpecPresets == LearnSpecInit /\ [][PresetsNext]_vars

\* The snapshot loadQuickPreset(slot) finds is the same before and after
\* the step.
SlotUnchanged(slot) ==
    LET key == "vss-preset-quick-" \o ToString(slot)
    IN  /\ (key \in DOMAIN localStorage') = (key \in DOMAIN localStorage)
        /\ key \in DOMAIN localStorage =>
               localStorage'[key].state = localStorage[key].state

\* C40: quick slots and named presets never overwrite one another.
\* savePreset with any name leaves the snapshot of every slot 1..9 as it
\* was, saveQuickPreset leaves what loadPreset returns for every name as it
\* was, and saveQuickPreset with a slot outside 1..9 leaves the store
\* untouched.
C40_PresetsKeptApart ==
    /\ [][call'.op = "savePreset" => \A slot \in 1..9 : SlotUnchanged(slot)]_vars
    /\ [][call'.op = "saveQuickPreset" =>
              \A name \in PresetNames :
                  loadPreset([localStorage |-> localStorage'], name)
                      = loadPreset([localStorage |-> localStorage], name)]_vars
    /\ [][(call'.op = "saveQuickPreset" /\ call'.a \notin 1..9) =>
              localStorage' = localStorage]_vars

====
